---- MODULE Spec2Model ----
(***************************************************************************)
(* State-machine model of the 3dvenue reconstruction front end:            *)
(*   - hooks/useAppState (reducer, startProcessing, cancelProcessing)      *)
(*   - engine/DepthEstimator (loadModel, estimateDepth, disposeModel)      *)
(*   - engine/ProcessingWorker and engine/WorkerBridge                     *)
(* Every await of the source is a separate action; the synchronous code    *)
(* between two awaits is one atomic action (JavaScript run-to-completion). *)
(***************************************************************************)
EXTENDS Integers, Sequences, FiniteSets, TLC

\* ---------------------------------------------------------------- bounds
MaxPhotos == 3        \* photo ids ever created in one behaviour
MaxDirectCalls == 2   \* independent callers of DepthEstimator.loadModel
MaxWorkers == 2       \* Workers created in one behaviour
MaxMessages == 2      \* largest msgCounter the model lets callWorker reach

\* ------------------------------------------------------------- constants
Null == "null"
ModelSizes == {"small", "base", "large"}
\* the tiers the model passes to startProcessing and loadModel
TierInputs == {"small", "large"}
PhotoLimit == 50

VARIABLES
  state,            \* AppState held by useReducer
  cancelRef,        \* cancelRef.current
  batch,            \* the running startProcessing call: its closure and position
  viewerTimer,      \* the setTimeout(..., 800) of a completed batch is pending
  pendingAdds,      \* addPhotos calls awaiting Promise.all (photos to dispatch)
  nextPhotoId,      \* number of photo ids created so far
  meshesBefore,     \* history: state.meshes when the current batch started
  trace,            \* history: dispatches and engine calls of the current batch, kept
                    \* until the first user action after the batch is over
  outcome,          \* history: how the current batch ended
  cancelMark,       \* history: Len(trace) when cancel was first requested, or -1
  depthPipeline,    \* DepthEstimator: the loaded handle (its tier, the call that
                    \* created it), or NoPipeline
  currentModelSize, \* DepthEstimator: currentModelSize
  deviceDetected,   \* DepthEstimator: deviceDetected
  loadCalls,        \* loadModel calls in flight, per caller
  equivInput,       \* the inputs handed to both execution paths
  equivOutput,      \* what the main-thread path and the worker path made of them
  worker,           \* WorkerBridge: the Worker referenced by `worker` (0: null)
  workerReady,      \* WorkerBridge: workerReady
  workerFailed,     \* WorkerBridge: workerFailed
  pendingCalls,     \* WorkerBridge: the pendingCalls map (id and awaiting call)
  msgCounter,       \* WorkerBridge: msgCounter
  workers,          \* every Worker created: its life cycle and ProcessingWorker state
  wire,             \* messages posted and not yet delivered (both directions)
  calls,            \* the bridge calls in flight, per caller
  settled,          \* history: the bridge calls the last task settled, and how
  fnArgs,           \* the arguments handed to one call of an engine function
  fnResult,         \* what the call returned or threw, and the objects it was
                    \* handed as the call left them
  secondBatch       \* a startProcessing call made through the hook while `batch`
                    \* is running: its closure and position, its timer, its end

appVars == <<state, cancelRef, batch, viewerTimer, pendingAdds, nextPhotoId,
             meshesBefore, trace, outcome, cancelMark>>
historyVars == <<batch, meshesBefore, trace, outcome, cancelMark>>
estimatorVars == <<depthPipeline, currentModelSize, deviceDetected, loadCalls>>
equivVars == <<equivInput, equivOutput>>
bridgeVars == <<worker, workerReady, workerFailed, pendingCalls, msgCounter, workers,
                wire, calls, settled>>
fnVars == <<fnArgs, fnResult>>
hookVars == <<secondBatch>>
engineVars == <<equivVars, bridgeVars, fnVars, hookVars>>
vars == <<appVars, estimatorVars, equivVars, bridgeVars, fnVars, hookVars>>

\* ------------------------------------------------------------ arithmetic
\* Math.round(p / q) for p >= 0, q > 0
Round(p, q) == (2 * p + q) \div (2 * q)

Min(a, b) == IF a < b THEN a ELSE b

Last(s) == s[Len(s)]

\* =========================================================================
\* engine/DepthEstimator.ts : the process-wide model handle
\* =========================================================================
DirectCallers == {"c" \o ToString(k) : k \in 1..MaxDirectCalls}
LoadCallers == {"batch"} \cup DirectCallers

IdleCall == [pc |-> "idle", tier |-> Null]

\* depthPipeline = null
NoPipeline == [tier |-> Null, by |-> Null]

\* loadModel up to its first await: the tier check, and the reset on a tier change.
\* msgs counts the onProgress calls made.
LoadModelEnter(dp, cms, tier) ==
  IF dp # NoPipeline /\ cms = tier
    THEN [dp |-> dp, cms |-> cms, pc |-> "returned", msgs |-> 0]
    ELSE IF dp # NoPipeline /\ cms # tier
      THEN [dp |-> NoPipeline, cms |-> Null, pc |-> "detect", msgs |-> 1]
      ELSE [dp |-> dp, cms |-> cms, pc |-> "detect", msgs |-> 0]

\* depthPipeline = await pipeline(...); currentModelSize = modelSize: the handle
\* pipeline() resolved with for call c is installed
InstallPipeline(tier, c) == [dp |-> [tier |-> tier, by |-> c], cms |-> tier]

\* =========================================================================
\* types : AppState, AppAction, ProcessingProgress, ProcessedMesh
\* =========================================================================
NoError == Null
NoProgress == [current |-> 0, total |-> 0, percentage |-> 0, phase |-> Null]
Progress(c, t, pct, ph) == [current |-> c, total |-> t, percentage |-> pct, phase |-> ph]

DEFAULT_QUALITY ==
  [modelSize |-> "large", enableSmoothing |-> TRUE,
   enableMultiView |-> TRUE, enablePointCloud |-> FALSE]

initialState ==
  [step |-> "upload", photos |-> <<>>, meshes |-> <<>>, progress |-> NoProgress,
   error |-> NoError, qualitySettings |-> DEFAULT_QUALITY]

SetStep(s) == [type |-> "SET_STEP", step |-> s]
SetProgress(p) == [type |-> "SET_PROGRESS", progress |-> p]
SetError(e) == [type |-> "SET_ERROR", error |-> e]
SetMeshes(ms) == [type |-> "SET_MESHES", meshes |-> ms]
SetQuality(f, v) == [type |-> "SET_QUALITY", field |-> f, value |-> v]
AddPhotosAction(ps) == [type |-> "ADD_PHOTOS", photos |-> ps]
RemovePhotoAction(id) == [type |-> "REMOVE_PHOTO", id |-> id]

\* state.photos.filter((p) => p.id !== action.id)
Filter(s, id) == SelectSeq(s, LAMBDA p : p # id)

\* reducer(state, action); RESET's calls into the engine are made by the Reset action
reducer(s, a) ==
  CASE a.type = "ADD_PHOTOS" -> [s EXCEPT !.photos = s.photos \o a.photos, !.error = NoError]
    [] a.type = "REMOVE_PHOTO" -> [s EXCEPT !.photos = Filter(s.photos, a.id), !.error = NoError]
    [] a.type = "CLEAR_PHOTOS" -> [s EXCEPT !.photos = <<>>, !.meshes = <<>>, !.error = NoError]
    [] a.type = "SET_STEP" -> [s EXCEPT !.step = a.step, !.error = NoError]
    [] a.type = "SET_PROGRESS" -> [s EXCEPT !.progress = a.progress]
    [] a.type = "SET_ERROR" -> [s EXCEPT !.error = a.error]
    [] a.type = "SET_MESHES" -> [s EXCEPT !.meshes = a.meshes]
    [] a.type = "SET_QUALITY" -> [s EXCEPT !.qualitySettings[a.field] = a.value]
    [] a.type = "RESET" -> initialState
    [] a.type = "RESTORE_STATE" -> a.state
    [] OTHER -> s

\* history entries: a dispatch made, or an engine function called, by the batch
D(a) == [kind |-> "dispatch", fn |-> a.type, i |-> 0, action |-> a]
Call(fn, i) == [kind |-> "call", fn |-> fn, i |-> i, action |-> [type |-> "NONE"]]

\* the reducer applied to every dispatch of a history segment, in order
RECURSIVE Reduce(_, _)
Reduce(s, tr) ==
  IF tr = <<>> THEN s
  ELSE Reduce(IF Head(tr).kind = "dispatch" THEN reducer(s, Head(tr).action) ELSE s, Tail(tr))

\* =========================================================================
\* engine/MultiViewAligner : what the batch needs of alignMeshes, mergePointClouds
\* =========================================================================
\* the ProcessedMesh pushed for a photo
NewMesh(photo, smoothed) ==
  [photoId |-> photo, smoothed |-> smoothed, translated |-> FALSE,
   icp |-> FALSE]

\* the first mesh is returned as it is, every other one with a translated clone
alignMeshes(ms) ==
  IF Len(ms) <= 1 THEN ms
  ELSE [k \in 1..Len(ms) |-> IF k = 1 THEN ms[1] ELSE [ms[k] EXCEPT !.translated = TRUE]]

\* [mergedMesh, ...meshes]; meshes[i].geometry, i >= 1, has had applyMatrix4(icp)
mergePointClouds(ms) ==
  IF Len(ms) <= 1 THEN ms
  ELSE <<[photoId |-> "merged-cloud", smoothed |-> FALSE,
          translated |-> FALSE, icp |-> FALSE]>>
       \o [k \in 1..Len(ms) |-> IF k = 1 THEN ms[1] ELSE [ms[k] EXCEPT !.icp = TRUE]]

\* =========================================================================
\* hooks/useAppState : startProcessing
\* =========================================================================
\* a thrown value: whether it is an Error, and which of the words the catch block
\* looks for its message includes
NoThrow == [isError |-> FALSE, words |-> {"-"}]
Thrown ==
  { [isError |-> FALSE, words |-> {}], [isError |-> TRUE, words |-> {"memory"}],
    [isError |-> TRUE, words |-> {"network"}] }

errorMessage(e) ==
  IF ~e.isError THEN "unexpected"
  ELSE IF "memory" \in e.words \/ "allocation" \in e.words THEN "out-of-memory"
  ELSE IF "fetch" \in e.words \/ "network" \in e.words THEN "model-download"
  ELSE IF "context" \in e.words \/ "webgl" \in e.words THEN "webgl-context"
  ELSE "detail"

\* mutant of estimatingPercentage: the photo counted as done when it starts
estimatingPercentageOfNext(i, n) == Round((i + 1) * 70, n)

\* the percentages of the per-photo phases
estimatingPercentage(i, n) == Round(i * 70, n)
generatingMeshPercentage(i, n) == Round((2 * i + 1) * 35, n)
smoothingPercentage(i, n) == Round((10 * i + 7) * 7, n)
aligningPercentage == 80
mergingPercentage == 90
completePercentage == 100

IdleBatch == [pc |-> "idle", photos |-> <<>>, qs |-> DEFAULT_QUALITY, i |-> 0, meshes |-> <<>>]

\* the catch block
Catch(b, e) ==
  [batch |-> [b EXCEPT !.pc = "idle"], timer |-> FALSE, outcome |-> "failed",
   trace |-> <<Call("throw", b.i), D(SetError(errorMessage(e))), D(SetStep("upload")),
               D(SetProgress(NoProgress))>>]

\* mutant of CancelCheck: the meshes built so far are committed on cancel
CancelCheckCommitsPartial(b) ==
  [batch |-> [b EXCEPT !.pc = "idle"], timer |-> FALSE, outcome |-> "cancelled",
   trace |-> <<D(SetMeshes(b.meshes)), D(SetStep("upload")), D(SetProgress(NoProgress))>>]

\* the cancel check at the top of a loop iteration
CancelCheck(b) ==
  [batch |-> [b EXCEPT !.pc = "idle"], timer |-> FALSE, outcome |-> "cancelled",
   trace |-> <<D(SetStep("upload")), D(SetProgress(NoProgress))>>]

\* mutant of Epilogue: 'complete' is reported before the alignment and the merge
EpilogueCompleteFirst(b, fuse) ==
  LET n == Len(b.photos)
      doAlign == b.qs.enableMultiView /\ Len(b.meshes) > 1
      aligned == IF doAlign THEN alignMeshes(b.meshes) ELSE b.meshes
      doMerge == b.qs.enablePointCloud /\ Len(aligned) > 1
      final == IF doMerge THEN mergePointClouds(aligned) ELSE aligned
  IN [batch |-> [b EXCEPT !.pc = "idle", !.i = n], timer |-> TRUE, outcome |-> "completed",
      trace |-> <<D(SetProgress(Progress(n, n, completePercentage, "complete")))>>
                \o (IF doAlign THEN <<Call("alignMeshes", n)>> ELSE <<>>)
                \o (IF doMerge THEN <<Call("mergePointClouds", n)>> ELSE <<>>)
                \o <<D(SetMeshes(final)), Call("setTimeout", n)>>]

\* phases 4 and 5, the commit and the 'complete' report (after the loop);
\* fuse, when not NoThrow, is thrown by alignMeshes or mergePointClouds
Epilogue(b, fuse) ==
  LET n == Len(b.photos)
      doAlign == b.qs.enableMultiView /\ Len(b.meshes) > 1
      aligned == IF doAlign THEN alignMeshes(b.meshes) ELSE b.meshes
      doMerge == b.qs.enablePointCloud /\ Len(aligned) > 1
      final == IF doMerge THEN mergePointClouds(aligned) ELSE aligned
      t4 == IF doAlign
              THEN <<D(SetProgress(Progress(n, n, aligningPercentage, "aligning"))),
                     Call("alignMeshes", n)>>
              ELSE <<>>
      t5 == IF doMerge
              THEN <<D(SetProgress(Progress(n, n, mergingPercentage, "merging"))),
                     Call("mergePointClouds", n)>>
              ELSE <<>>
      thrown == Catch([b EXCEPT !.i = n], fuse)
  IN IF fuse # NoThrow /\ (doAlign \/ doMerge)
       THEN [thrown EXCEPT !.trace = (IF doAlign THEN t4 ELSE t5) \o thrown.trace]
       ELSE [batch |-> [b EXCEPT !.pc = "idle", !.i = n], timer |-> TRUE,
             outcome |-> "completed",
             trace |-> t4 \o t5 \o
               <<D(SetMeshes(final)),
                 D(SetProgress(Progress(n, n, completePercentage, "complete"))),
                 Call("setTimeout", n)>>]

\* the loop from the test i < n of iteration i up to the next await (or the end)
LoopHead(b, cancel, fuse) ==
  LET n == Len(b.photos) IN
  IF b.i < n
    THEN IF cancel
      THEN CancelCheck(b)
      ELSE [batch |-> [b EXCEPT !.pc = "estimateDepth"], timer |-> FALSE,
            outcome |-> "running",
            trace |-> <<D(SetProgress(Progress(b.i, n, estimatingPercentage(b.i, n),
                                               "estimating"))),
                        Call("estimateDepth", b.i)>>]
    ELSE Epilogue(b, fuse)

\* mutant of LoopBody: a photo whose mesh construction throws is skipped and the
\* loop goes on with the next photo
LoopBodySkipsFailedPhoto(b, cancel, mesh, fuse) ==
  LET n == Len(b.photos)
      i == b.i
      t1 == <<D(SetProgress(Progress(i, n, generatingMeshPercentage(i, n),
                                     "generating-mesh"))),
              Call("generateDepthMesh", i)>>
      pushed == [b EXCEPT !.meshes = Append(b.meshes,
                              NewMesh(b.photos[i + 1], b.qs.enableSmoothing)),
                          !.i = i + 1]
      skipped == [b EXCEPT !.i = i + 1]
      rest == LoopHead(IF mesh # NoThrow THEN skipped ELSE pushed, cancel, fuse)
  IN [rest EXCEPT !.trace =
        t1 \o (IF mesh # NoThrow THEN <<Call("throw", i)>> ELSE <<Call("push", i)>>)
           \o rest.trace]

\* iteration i from the return of estimateDepth on; mesh, when not NoThrow, is
\* thrown by generateDepthMesh
LoopBody(b, cancel, mesh, fuse) ==
  LET n == Len(b.photos)
      i == b.i
      t1 == <<D(SetProgress(Progress(i, n, generatingMeshPercentage(i, n),
                                     "generating-mesh"))),
              Call("generateDepthMesh", i)>>
      t3 == IF b.qs.enableSmoothing
              THEN <<D(SetProgress(Progress(i, n, smoothingPercentage(i, n), "smoothing"))),
                     Call("smoothMesh", i)>>
              ELSE <<>>
      pushed == [b EXCEPT !.meshes = Append(b.meshes,
                              NewMesh(b.photos[i + 1], b.qs.enableSmoothing)),
                          !.i = i + 1]
      rest == LoopHead(pushed, cancel, fuse)
      thrown == Catch(b, mesh)
  IN IF mesh # NoThrow
       THEN [thrown EXCEPT !.trace = t1 \o thrown.trace]
       ELSE [rest EXCEPT !.trace = t1 \o t3 \o <<Call("push", i)>> \o rest.trace]

\* ------------------------------------------------------------ the actions
\* the history of a batch is dropped by the first user action after it is over
BatchOver == batch.pc = "idle" /\ ~viewerTimer
ForgetHistory ==
  IF BatchOver
    THEN /\ batch' = IdleBatch
         /\ meshesBefore' = <<>>
         /\ trace' = <<>>
         /\ outcome' = "none"
         /\ cancelMark' = -1
    ELSE UNCHANGED historyVars

\* the batch takes the continuation r: its dispatches reach the reducer in order
Continue(r) ==
  /\ state' = Reduce(state, r.trace)
  /\ trace' = trace \o r.trace
  /\ batch' = r.batch
  /\ viewerTimer' = r.timer
  /\ outcome' = r.outcome

\* startProcessing(modelSize) up to the await of loadModel (PhotoUploader's
\* onProcess, rendered in step 'upload'); a loadModel that finds the tier loaded
\* returns at once and the loop starts
StartProcessing(modelSize) ==
  /\ state.step = "upload"
  /\ batch.pc = "idle"
  /\ Len(state.photos) >= 1
  /\ LET n == Len(state.photos)
         qs == [state.qualitySettings EXCEPT !.modelSize = modelSize]
         enter == LoadModelEnter(depthPipeline, currentModelSize, modelSize)
         loading == D(SetProgress(Progress(0, n, 0, "loading-model")))
         t0 == <<D(SetQuality("modelSize", modelSize)), D(SetStep("processing")), loading>>
               \o [k \in 1..enter.msgs |-> loading]
         b0 == [pc |-> "loadModel", photos |-> state.photos, qs |-> qs, i |-> 0,
                meshes |-> <<>>]
         r == IF enter.pc = "returned"
                THEN LoopHead(b0, FALSE, NoThrow)
                ELSE [batch |-> b0, timer |-> FALSE, outcome |-> "running", trace |-> <<>>]
     IN /\ state' = Reduce(state, t0 \o r.trace)
        /\ trace' = t0 \o r.trace
        /\ batch' = r.batch
        /\ viewerTimer' = r.timer
        /\ outcome' = r.outcome
        /\ depthPipeline' = enter.dp
        /\ currentModelSize' = enter.cms
        /\ loadCalls' = [loadCalls EXCEPT !["batch"] =
                           IF enter.pc = "returned" THEN IdleCall
                           ELSE [pc |-> enter.pc, tier |-> modelSize]]
  /\ cancelRef' = FALSE
  /\ cancelMark' = -1
  /\ meshesBefore' = state.meshes
  /\ UNCHANGED <<pendingAdds, nextPhotoId, deviceDetected>>
  /\ UNCHANGED engineVars

\* loadModel of the batch: detectBestDevice resolves, onProgress, pipeline() starts
BatchDetectResolved ==
  /\ batch.pc = "loadModel"
  /\ loadCalls["batch"].pc = "detect"
  /\ LET n == Len(batch.photos)
         t == <<D(SetProgress(Progress(0, n, 0, "loading-model")))>>
     IN /\ state' = Reduce(state, t)
        /\ trace' = trace \o t
  /\ loadCalls' = [loadCalls EXCEPT !["batch"].pc = "pipeline"]
  /\ deviceDetected' = TRUE
  /\ UNCHANGED <<cancelRef, batch, viewerTimer, pendingAdds, nextPhotoId, meshesBefore,
                 outcome, cancelMark, depthPipeline, currentModelSize>>
  /\ UNCHANGED engineVars

\* loadModel of the batch: pipeline() resolves, the handle is installed, loadModel
\* returns and the loop starts (cancel check of photo 0)
BatchPipelineResolved ==
  /\ batch.pc = "loadModel"
  /\ loadCalls["batch"].pc = "pipeline"
  /\ LET n == Len(batch.photos)
         t == <<D(SetProgress(Progress(0, n, 0, "loading-model")))>>
         r == LoopHead(batch, cancelRef, NoThrow)
     IN Continue([r EXCEPT !.trace = t \o r.trace])
  /\ depthPipeline' = InstallPipeline(loadCalls["batch"].tier, "batch").dp
  /\ currentModelSize' = InstallPipeline(loadCalls["batch"].tier, "batch").cms
  /\ loadCalls' = [loadCalls EXCEPT !["batch"] = IdleCall]
  /\ UNCHANGED <<cancelRef, pendingAdds, nextPhotoId, meshesBefore, cancelMark, deviceDetected>>
  /\ UNCHANGED engineVars

\* loadModel of the batch: pipeline() rejects with e, caught by startProcessing
BatchPipelineRejected(e) ==
  /\ batch.pc = "loadModel"
  /\ loadCalls["batch"].pc = "pipeline"
  /\ Continue(Catch(batch, e))
  /\ loadCalls' = [loadCalls EXCEPT !["batch"] = IdleCall]
  /\ UNCHANGED <<cancelRef, pendingAdds, nextPhotoId, meshesBefore, cancelMark,
                 depthPipeline, currentModelSize, deviceDetected>>
  /\ UNCHANGED engineVars

\* estimateDepth of photo i resolves: mesh, smoothing, push, then the next
\* iteration up to its await, or the phases after the loop
EstimateDepthResolved(mesh, fuse) ==
  /\ batch.pc = "estimateDepth"
  /\ Continue(LoopBody(batch, cancelRef, mesh, fuse))
  /\ UNCHANGED <<cancelRef, pendingAdds, nextPhotoId, meshesBefore, cancelMark, estimatorVars>>
  /\ UNCHANGED engineVars

\* estimateDepth of photo i rejects with e
EstimateDepthRejected(e) ==
  /\ batch.pc = "estimateDepth"
  /\ Continue(Catch(batch, e))
  /\ UNCHANGED <<cancelRef, pendingAdds, nextPhotoId, meshesBefore, cancelMark, estimatorVars>>
  /\ UNCHANGED engineVars

\* the setTimeout(..., 800) callback of a completed batch
ViewerTimeout ==
  /\ viewerTimer
  /\ LET t == <<D(SetStep("viewer")), D(SetProgress(NoProgress))>>
     IN /\ state' = Reduce(state, t)
        /\ trace' = trace \o t
  /\ viewerTimer' = FALSE
  /\ UNCHANGED <<cancelRef, batch, pendingAdds, nextPhotoId, meshesBefore, outcome,
                 cancelMark, estimatorVars>>
  /\ UNCHANGED engineVars

\* cancelProcessing (ProcessingView's onCancel, rendered while step is
\* 'processing' and progress is set)
CancelProcessing ==
  /\ state.step = "processing"
  /\ state.progress # NoProgress
  /\ cancelRef' = TRUE
  /\ cancelMark' = IF batch.pc # "idle" /\ cancelMark = -1 THEN Len(trace) ELSE cancelMark
  /\ UNCHANGED <<state, batch, viewerTimer, pendingAdds, nextPhotoId, meshesBefore, trace,
                 outcome, estimatorVars>>
  /\ UNCHANGED engineVars

\* addPhotos(files) with k files, up to the await of Promise.all (the user adds
\* more files once the previous ones are read)
AddPhotosCall(k) ==
  /\ state.step = "upload"
  /\ pendingAdds = {}
  /\ nextPhotoId + k <= MaxPhotos
  /\ LET remaining == PhotoLimit - Len(state.photos)
         count == Min(k, remaining)
         toAdd == [j \in 1..count |-> ToString(nextPhotoId + j)]
     IN /\ count >= 1
        /\ pendingAdds' = pendingAdds \cup {toAdd}
        /\ nextPhotoId' = nextPhotoId + count
  /\ ForgetHistory
  /\ UNCHANGED <<state, cancelRef, viewerTimer, estimatorVars>>
  /\ UNCHANGED engineVars

\* Promise.all resolves: dispatch ADD_PHOTOS
AddPhotosResolved(ps) ==
  /\ ps \in pendingAdds
  /\ pendingAdds' = pendingAdds \ {ps}
  /\ state' = reducer(state, AddPhotosAction(ps))
  /\ ForgetHistory
  /\ UNCHANGED <<cancelRef, viewerTimer, nextPhotoId, estimatorVars>>
  /\ UNCHANGED engineVars

\* Promise.all rejects: dispatch SET_ERROR
AddPhotosRejected(ps) ==
  /\ ps \in pendingAdds
  /\ pendingAdds' = pendingAdds \ {ps}
  /\ state' = reducer(state, SetError("add-photos"))
  /\ ForgetHistory
  /\ UNCHANGED <<cancelRef, viewerTimer, nextPhotoId, estimatorVars>>
  /\ UNCHANGED engineVars

\* QualitySettings' toggle(id)
ToggleQuality(f) ==
  /\ state.step = "upload"
  /\ state' = reducer(state, SetQuality(f, ~state.qualitySettings[f]))
  /\ ForgetHistory
  /\ UNCHANGED <<cancelRef, viewerTimer, pendingAdds, nextPhotoId, estimatorVars>>
  /\ UNCHANGED engineVars

\* ErrorDisplay's onClear (the close button, or its 10 s timer)
ClearError ==
  /\ state.error # NoError
  /\ state' = reducer(state, SetError(NoError))
  /\ ForgetHistory
  /\ UNCHANGED <<cancelRef, viewerTimer, pendingAdds, nextPhotoId, estimatorVars>>
  /\ UNCHANGED engineVars

\* what PersistenceService.loadState() can resolve with on mount: a state an
\* earlier session saved (errors are not persisted) with its one photo
PersistedStates ==
  { [initialState EXCEPT !.photos = <<"saved">>],
    [initialState EXCEPT !.photos = <<"saved">>, !.step = "processing",
                         !.progress = Progress(0, 1, 0, "estimating")],
    [initialState EXCEPT !.photos = <<"saved">>, !.step = "viewer",
                         !.meshes = <<NewMesh("saved", TRUE)>>] }

\* the mount effect: loadState() resolves with a persisted state before the
\* user has done anything, dispatch RESTORE_STATE
RestoreState(persisted) ==
  /\ state = initialState
  /\ nextPhotoId = 0
  /\ ~deviceDetected
  /\ state' = reducer(state, [type |-> "RESTORE_STATE", state |-> persisted])
  /\ UNCHANGED <<cancelRef, viewerTimer, pendingAdds, nextPhotoId, historyVars,
                 estimatorVars, engineVars>>

\* Viewer3D's onNewProject: RESET, whose reducer case calls disposeModel()
Reset ==
  /\ state.step = "viewer"
  /\ state' = reducer(state, [type |-> "RESET"])
  /\ depthPipeline' = NoPipeline
  /\ currentModelSize' = Null
  /\ ForgetHistory
  /\ UNCHANGED <<cancelRef, viewerTimer, pendingAdds, nextPhotoId, deviceDetected, loadCalls>>
  /\ UNCHANGED engineVars

\* a caller of the bridge that has made no call yet
IdleBridgeCall ==
  [pc |-> "idle", op |-> Null, tier |-> Null, signal |-> "none", id |-> 0,
   modelInWorker |-> FALSE, failure |-> "none", afterFailure |-> FALSE]

\* nothing has been handed to the two execution paths
NoSample == [kind |-> "none"]
NoOutput == [kind |-> "none"]

\* no second startProcessing call has been made
NoSecondBatch == [batch |-> IdleBatch, timer |-> FALSE, outcome |-> "none"]

InitApp ==
  /\ secondBatch = NoSecondBatch
  /\ state = initialState
  /\ cancelRef = FALSE
  /\ batch = IdleBatch
  /\ viewerTimer = FALSE
  /\ pendingAdds = {}
  /\ nextPhotoId = 0
  /\ meshesBefore = <<>>
  /\ trace = <<>>
  /\ outcome = "none"
  /\ cancelMark = -1

InitEstimator ==
  /\ depthPipeline = NoPipeline
  /\ currentModelSize = Null
  /\ deviceDetected = FALSE
  /\ loadCalls = [c \in LoadCallers |-> IdleCall]

InitEquivIdle ==
  /\ equivInput = NoSample
  /\ equivOutput = [main |-> NoOutput, worker |-> NoOutput]

InitBridge ==
  /\ worker = 0
  /\ workerReady = FALSE
  /\ workerFailed = FALSE
  /\ pendingCalls = {}
  /\ msgCounter = 0
  /\ workers = <<>>
  /\ wire = {}
  /\ calls = [c \in DirectCallers |-> IdleBridgeCall]
  /\ settled = {}

\* no engine function has been called
InitFnIdle ==
  /\ fnArgs = NoSample
  /\ fnResult = NoOutput

Init == InitApp /\ InitEstimator /\ InitEquivIdle /\ InitBridge /\ InitFnIdle

Next ==
  \/ \E m \in TierInputs : StartProcessing(m)
  \/ BatchDetectResolved
  \/ BatchPipelineResolved
  \/ \E e \in Thrown : BatchPipelineRejected(e)
  \/ \E mesh \in Thrown \cup {NoThrow}, fuse \in Thrown \cup {NoThrow} :
       EstimateDepthResolved(mesh, fuse)
  \/ \E e \in Thrown : EstimateDepthRejected(e)
  \/ ViewerTimeout
  \/ CancelProcessing
  \/ \E k \in 1..MaxPhotos : AddPhotosCall(k)
  \/ \E ps \in pendingAdds : AddPhotosResolved(ps)
  \/ \E ps \in pendingAdds : AddPhotosRejected(ps)
  \/ \E f \in {"enableSmoothing", "enableMultiView", "enablePointCloud"} : ToggleQuality(f)
  \/ ClearError
  \/ Reset
  \/ \E persisted \in PersistedStates : RestoreState(persisted)

Spec == Init /\ [][Next]_vars

\* =========================================================================
\* Properties of a startProcessing batch (specification Spec)
\* =========================================================================
IsDispatch(e, ty) == e.kind = "dispatch" /\ e.fn = ty
IsCall(e, f) == e.kind = "call" /\ e.fn = f
IsProgress(e) == IsDispatch(e, "SET_PROGRESS") /\ e.action.progress # NoProgress
PhotoIdsOf(ms) == [j \in 1..Len(ms) |-> ms[j].photoId]
Committed == {k \in 1..Len(trace) : IsDispatch(trace[k], "SET_MESHES")}
\* every photo 0..n-1 of the batch has had its mesh pushed before position k
AllPushedBefore(k) ==
  \A i \in 0..(Len(batch.photos) - 1) :
    \E j \in 1..(k - 1) : IsCall(trace[j], "push") /\ trace[j].i = i

\* C1: once cancelProcessing has been called during a batch (model load or any
\* photo, the last one included), the batch dispatches no SET_MESHES, starts no
\* further estimateDepth, and ends with step 'upload' and progress null.
C1_CancelDiscardsBatch ==
  cancelMark >= 0 =>
    /\ \A k \in (cancelMark + 1)..Len(trace) :
         ~IsDispatch(trace[k], "SET_MESHES") /\ ~IsCall(trace[k], "estimateDepth")
    /\ batch.pc = "idle" => state.step = "upload" /\ state.progress = NoProgress

\* C2: SET_MESHES is dispatched only after every photo has its mesh, with one
\* mesh per photo in photo order (after one 'merged-cloud' entry when fusion
\* ran); a failed or cancelled batch leaves step 'upload' and state.meshes as
\* it was before the batch.
C2_AllOrNothing ==
  /\ \A k \in Committed :
       /\ AllPushedBefore(k)
       /\ PhotoIdsOf(trace[k].action.meshes) =
            (IF \E j \in 1..k : IsCall(trace[j], "mergePointClouds")
               THEN <<"merged-cloud">> ELSE <<>>) \o batch.photos
  /\ outcome = "completed" =>
       \E k \in Committed : state.meshes = trace[k].action.meshes
  /\ outcome \in {"failed", "cancelled"} =>
       /\ Committed = {}
       /\ state.meshes = meshesBefore
       /\ state.step = "upload"

C2_Witness ==
  /\ outcome = "completed"
  /\ Len(batch.photos) >= 2
  /\ PhotoIdsOf(state.meshes) = <<"merged-cloud">> \o batch.photos

\* C3: when estimateDepth or mesh construction throws for photo k, no photo
\* after k is estimated or meshed, no SET_MESHES is dispatched, and the batch
\* ends in step 'upload' with progress null.
C3_FailFast ==
  \A t \in 1..Len(trace) :
    IsCall(trace[t], "throw") =>
      /\ \A j \in 1..Len(trace) :
           (trace[j].kind = "call" /\ trace[j].fn \in
              {"estimateDepth", "generateDepthMesh", "smoothMesh", "push"})
             => (j < t /\ trace[j].i <= trace[t].i)
      /\ Committed = {}
      /\ batch.pc = "idle"
      /\ state.step = "upload"
      /\ state.progress = NoProgress

C3_Witness ==
  /\ outcome = "failed"
  /\ Len(batch.photos) = 3
  /\ batch.i = 1
  /\ Len(batch.meshes) = 1
  /\ \E j \in 1..Len(trace) : IsCall(trace[j], "estimateDepth") /\ trace[j].i = 1

\* C4: when a batch fails, state.error is a non-null message once the reducer
\* has applied the dispatches of the catch block.
C4_FailureSurfaced ==
  [][(outcome' = "failed" /\ outcome # "failed") => state'.error # NoError]_vars

\* C5: the percentages of the SET_PROGRESS dispatches of one batch never decrease.
C5_ProgressMonotone ==
  \A j, k \in 1..Len(trace) :
    (j < k /\ IsProgress(trace[j]) /\ IsProgress(trace[k]))
      => trace[j].action.progress.percentage <= trace[k].action.progress.percentage

C5_Witness ==
  /\ outcome = "completed"
  /\ Len(batch.photos) = 3
  /\ \E j \in 1..Len(trace) : IsCall(trace[j], "smoothMesh")
  /\ \E j \in 1..Len(trace) : IsCall(trace[j], "alignMeshes")
  /\ \E j \in 1..Len(trace) : IsCall(trace[j], "mergePointClouds")
  /\ state.progress.percentage = completePercentage

\* C6: photo i+1 is estimated only after the mesh of photo i was pushed, photos
\* are estimated in the order supplied, alignMeshes and mergePointClouds start
\* only after every photo has its mesh, and 'complete' is reported after them.
C6_Ordering ==
  \A k \in 1..Len(trace) :
    /\ IsCall(trace[k], "estimateDepth") =>
         /\ \A i \in 0..(trace[k].i - 1) :
              \E j \in 1..(k - 1) : IsCall(trace[j], "push") /\ trace[j].i = i
         /\ \A j \in 1..(k - 1) : IsCall(trace[j], "estimateDepth") => trace[j].i < trace[k].i
    /\ (IsCall(trace[k], "alignMeshes") \/ IsCall(trace[k], "mergePointClouds")) =>
         AllPushedBefore(k)
    /\ (IsProgress(trace[k]) /\ trace[k].action.progress.phase = "complete") =>
         /\ AllPushedBefore(k)
         /\ \A j \in 1..Len(trace) :
              (IsCall(trace[j], "alignMeshes") \/ IsCall(trace[j], "mergePointClouds"))
                => j < k

C6_Witness ==
  /\ outcome = "completed"
  /\ Len(batch.photos) = 3
  /\ \E j, k \in 1..Len(trace) :
       /\ j < k
       /\ IsCall(trace[j], "alignMeshes")
       /\ IsCall(trace[k], "mergePointClouds")

\* =========================================================================
\* engine/DepthEstimator.ts : loadModel and disposeModel called by independent
\* callers (specification SpecEstimator)
\* =========================================================================
\* loadModel(tier) of caller c up to its first await
LoadModelCall(c, tier) ==
  /\ loadCalls[c].pc = "idle"
  /\ LET enter == LoadModelEnter(depthPipeline, currentModelSize, tier)
     IN /\ depthPipeline' = enter.dp
        /\ currentModelSize' = enter.cms
        /\ loadCalls' = [loadCalls EXCEPT ![c] =
                           IF enter.pc = "returned" THEN IdleCall
                           ELSE [pc |-> enter.pc, tier |-> tier]]
  /\ UNCHANGED <<appVars, hookVars, deviceDetected>>
  /\ UNCHANGED engineVars

\* await detectBestDevice() resolves; pipeline() is started
DetectBestDeviceResolved(c) ==
  /\ loadCalls[c].pc = "detect"
  /\ loadCalls' = [loadCalls EXCEPT ![c].pc = "pipeline"]
  /\ deviceDetected' = TRUE
  /\ UNCHANGED <<appVars, hookVars, depthPipeline, currentModelSize>>
  /\ UNCHANGED engineVars

\* await pipeline(...) resolves: the handle and currentModelSize are assigned
PipelineResolved(c) ==
  /\ loadCalls[c].pc = "pipeline"
  /\ depthPipeline' = InstallPipeline(loadCalls[c].tier, c).dp
  /\ currentModelSize' = InstallPipeline(loadCalls[c].tier, c).cms
  /\ loadCalls' = [loadCalls EXCEPT ![c] = IdleCall]
  /\ UNCHANGED <<appVars, hookVars, deviceDetected>>
  /\ UNCHANGED engineVars

\* await pipeline(...) rejects: loadModel throws to its caller
PipelineRejected(c) ==
  /\ loadCalls[c].pc = "pipeline"
  /\ loadCalls' = [loadCalls EXCEPT ![c] = IdleCall]
  /\ UNCHANGED <<appVars, hookVars, depthPipeline, currentModelSize, deviceDetected>>
  /\ UNCHANGED engineVars

\* disposeModel()
DisposeModel ==
  /\ depthPipeline' = NoPipeline
  /\ currentModelSize' = Null
  /\ UNCHANGED <<appVars, hookVars, deviceDetected, loadCalls>>
  /\ UNCHANGED engineVars

NextEstimator ==
  \/ \E c \in DirectCallers, tier \in ModelSizes : LoadModelCall(c, tier)
  \/ \E c \in DirectCallers : DetectBestDeviceResolved(c)
  \/ \E c \in DirectCallers : PipelineResolved(c)
  \/ \E c \in DirectCallers : PipelineRejected(c)
  \/ DisposeModel

SpecEstimator == Init /\ [][NextEstimator]_vars

\* C7: over any interleaving of loadModel and disposeModel calls, a handle is
\* installed only when no model is loaded or the loaded tier differs from the
\* requested one, and whenever a model is loaded currentModelSize is the tier
\* its handle was loaded for.
C7_ReloadOnlyOnTierChange ==
  /\ [](depthPipeline # NoPipeline => currentModelSize = depthPipeline.tier)
  /\ [][(depthPipeline' # depthPipeline /\ depthPipeline' # NoPipeline)
          => (depthPipeline = NoPipeline \/ currentModelSize # depthPipeline'.tier)]_vars

\* =========================================================================
\* The two execution paths as functions of their inputs (specification
\* SpecEquiv): DepthEstimator.estimateDepth against ProcessingWorker's
\* handleEstimateDepth, MeshGenerator.generateDepthMesh against
\* handleGenerateMesh.  A depth map is represented by the stages that produced
\* it and their parameters (sigmas in thousandths) and by its size.
\* =========================================================================
Max(a, b) == IF a > b THEN a ELSE b

\* "Cap resolution": w and h scaled by maxResolution / Math.max(w, h), rounded
CapResolution(w, h, maxResolution) ==
  IF w > maxResolution \/ h > maxResolution
    THEN [w |-> Round(w * maxResolution, Max(w, h)),
          h |-> Round(h * maxResolution, Max(w, h))]
    ELSE [w |-> w, h |-> h]

Bilateral(radius, sigmaRange) ==
  [stage |-> "bilateralFilter", radius |-> radius, sigmaRange |-> sigmaRange]
Stage(name) == [stage |-> name, radius |-> 0, sigmaRange |-> 0]

\* DepthEstimator.estimateDepth from the depth tensor on
estimateDepth(in) ==
  LET size == CapResolution(in.imgW, in.imgH, in.maxResolution)
      minDim == Min(in.depthW, in.depthH)
      adaptiveRadius == Max(2, Round(minDim, 128))
      adaptiveSigmaRange == IF minDim < 512 THEN 80 ELSE IF minDim > 1024 THEN 150 ELSE 120
      resize ==
        IF in.depthW = size.w /\ in.depthH = size.h THEN <<>>
        ELSE IF in.depthW * in.depthH < size.w * size.h /\ in.canvas
          THEN <<Stage("jointBilateralUpsample")>>
          ELSE <<Stage("resizeDepthMap")>>
  IN [kind |-> "depth",
      stages |-> <<Stage("normalize"), Bilateral(adaptiveRadius, adaptiveSigmaRange),
                   Stage("medianFilter"), Stage("holeFilling"),
                   Bilateral(Max(2, adaptiveRadius - 1), (adaptiveSigmaRange * 8) \div 10)>>
                 \o resize,
      width |-> size.w, height |-> size.h]

\* ProcessingWorker.handleEstimateDepth from the depth tensor on
handleEstimateDepth(in) ==
  LET size == CapResolution(in.depthW, in.depthH, in.maxResolution)
  IN [kind |-> "depth",
      stages |-> <<Stage("normalize"), Bilateral(3, 100), Stage("resizeDepthMap")>>,
      width |-> size.w, height |-> size.h]

\* Math.tan((fov * Math.PI) / 180 / 2) * 0.5 for the default fov of 60, in
\* thousandths
perspectiveFactor == 289

\* the vertex of the top right corner (u = 1, v = 0) of a plane of aspect * 4 by 4
\* whose x and y are scaled by scale / 1000: x and y as fractions, z
CornerVertex(width, height, z, scale) ==
  [x |-> <<2 * width * scale, 1000 * height>>, y |-> <<2 * scale, 1000>>, z |-> z]

\* MeshGenerator.generateDepthMesh with its default options, for a depth map
\* whose every pixel is in.depth (the outlier threshold mean + 2.5 * stdDev is
\* then z itself, and nothing is clamped): the grid, and its corner vertex
generateDepthMesh(in) ==
  LET maxSegments == 800
      segsX == Min(in.width, maxSegments)
      segsY == Min(in.height, maxSegments)
      z == in.depth * in.depthScale
  IN [kind |-> "mesh", width |-> segsX, height |-> segsY,
      vertexCount |-> (segsX + 1) * (segsY + 1),
      corner |-> CornerVertex(in.width, in.height, z, 1000 + z * perspectiveFactor)]

\* ProcessingWorker.handleGenerateMesh for the same depth map
handleGenerateMesh(in) ==
  LET segsX == Min(in.width, 400)
      segsY == Min(in.height, 400)
      z == in.depth * in.depthScale
  IN [kind |-> "mesh", width |-> segsX, height |-> segsY,
      vertexCount |-> (segsX + 1) * (segsY + 1),
      corner |-> CornerVertex(in.width, in.height, z, 1000)]

\* the inputs the paths are compared on
TensorSides == {256, 518, 1036}
ImageSides == {256, 518, 1600}
MaxResolutions == {512, 1024}
MeshSides == {2, 400, 401, 800, 801}
DepthInputs ==
  [kind : {"depth"}, depthW : TensorSides, depthH : TensorSides, imgW : ImageSides,
   imgH : ImageSides, maxResolution : MaxResolutions, canvas : BOOLEAN]
MeshInputs ==
  [kind : {"mesh"}, width : MeshSides, height : MeshSides, depth : {0, 1},
   depthScale : {2}]

InitEquiv ==
  /\ InitApp /\ InitEstimator /\ InitBridge /\ InitFnIdle
  /\ equivInput \in DepthInputs \cup MeshInputs
  /\ equivOutput = [main |-> NoOutput, worker |-> NoOutput]

EstimateDepthOnMainThread ==
  /\ equivInput.kind = "depth"
  /\ equivOutput.main = NoOutput
  /\ equivOutput' = [equivOutput EXCEPT !.main = estimateDepth(equivInput)]
  /\ UNCHANGED <<appVars, hookVars, estimatorVars, bridgeVars, fnVars, equivInput>>

EstimateDepthInWorker ==
  /\ equivInput.kind = "depth"
  /\ equivOutput.worker = NoOutput
  /\ equivOutput' = [equivOutput EXCEPT !.worker = handleEstimateDepth(equivInput)]
  /\ UNCHANGED <<appVars, hookVars, estimatorVars, bridgeVars, fnVars, equivInput>>

GenerateMeshOnMainThread ==
  /\ equivInput.kind = "mesh"
  /\ equivOutput.main = NoOutput
  /\ equivOutput' = [equivOutput EXCEPT !.main = generateDepthMesh(equivInput)]
  /\ UNCHANGED <<appVars, hookVars, estimatorVars, bridgeVars, fnVars, equivInput>>

GenerateMeshInWorker ==
  /\ equivInput.kind = "mesh"
  /\ equivOutput.worker = NoOutput
  /\ equivOutput' = [equivOutput EXCEPT !.worker = handleGenerateMesh(equivInput)]
  /\ UNCHANGED <<appVars, hookVars, estimatorVars, bridgeVars, fnVars, equivInput>>

NextEquiv ==
  \/ EstimateDepthOnMainThread
  \/ EstimateDepthInWorker
  \/ GenerateMeshOnMainThread
  \/ GenerateMeshInWorker

SpecEquiv == InitEquiv /\ [][NextEquiv]_vars

\* C8: for the same depth tensor, image size and maxResolution the worker path
\* and the main-thread path apply the same stages with the same parameters and
\* return the same width and height, and for the same depth map and depthScale
\* they build the same vertex grid and the same vertex positions.
C8_PathsEquivalent ==
  (equivOutput.main # NoOutput /\ equivOutput.worker # NoOutput)
    => equivOutput.main = equivOutput.worker

\* =========================================================================
\* engine/WorkerBridge.ts and the message loop of engine/ProcessingWorker
\* (specification SpecBridge).  A task of the event loop (a call from outside,
\* a delivered message, a timer, an abort event) is one action and includes the
\* promise continuations it releases.  B is the state of the bridge and of the
\* main-thread DepthEstimator as a record.
\* =========================================================================
BridgeState ==
  [worker |-> worker, workerReady |-> workerReady, workerFailed |-> workerFailed,
   pendingCalls |-> pendingCalls, msgCounter |-> msgCounter, workers |-> workers,
   wire |-> wire, calls |-> calls, settled |-> {}, depthPipeline |-> depthPipeline,
   currentModelSize |-> currentModelSize, loadCalls |-> loadCalls]

\* the bridge call of c settles: result is how, reason is what it rejected with
Settle(B, c, result, reason) ==
  [B EXCEPT !.calls[c] = IdleBridgeCall,
            !.settled = B.settled \cup
               {[c |-> c, op |-> B.calls[c].op, modelInWorker |-> B.calls[c].modelInWorker,
                 failure |-> B.calls[c].failure, result |-> result, reason |-> reason]}]

\* worker?.terminate(): the Worker's state is gone, and nothing posted to it or
\* by it is delivered
Terminate(B) ==
  IF B.worker = 0 THEN B
  ELSE [B EXCEPT !.workers[B.worker].alive = FALSE,
                 !.workers[B.worker].started = FALSE,
                 !.workers[B.worker].pipeline = Null,
                 !.workers[B.worker].currentModelSize = Null,
                 !.workers[B.worker].loading = {},
                 !.wire = {m \in B.wire : m.w # B.worker}]

\* workerFailed = true; worker?.terminate(); worker = null
MarkFailed(B) ==
  [Terminate(B) EXCEPT !.workerFailed = TRUE, !.worker = 0]

\* directLoadModel(modelSize) up to its first await
DirectLoadModel(B, c) ==
  LET enter == LoadModelEnter(B.depthPipeline, B.currentModelSize, B.calls[c].tier)
      B1 == [B EXCEPT !.depthPipeline = enter.dp, !.currentModelSize = enter.cms]
  IN IF enter.pc = "returned"
       THEN Settle(B1, c, "resolved-main-thread", Null)
       ELSE [B1 EXCEPT !.calls[c].pc = "directLoadModel",
                       !.loadCalls[c] = [pc |-> enter.pc, tier |-> B.calls[c].tier]]

\* directEstimateDepth(imageData, maxResolution) up to its first await
DirectEstimateDepth(B, c) ==
  IF B.depthPipeline = NoPipeline
    THEN Settle(B, c, "rejected", "Model not loaded")
    ELSE [B EXCEPT !.calls[c].pc = "directEstimateDepth"]

\* disposeWorker from `worker = null` on
DisposeReset(B, c) ==
  Settle([B EXCEPT !.worker = 0, !.workerReady = FALSE, !.workerFailed = FALSE,
                   !.pendingCalls = {}, !.msgCounter = 0,
                   !.depthPipeline = NoPipeline, !.currentModelSize = Null],
         c, "resolved", Null)

\* disposeWorker after its await: worker.terminate() throws when worker is null
DisposeAfterCall(B, c) ==
  IF B.worker = 0
    THEN Settle(B, c, "rejected", "TypeError")
    ELSE DisposeReset(Terminate(B), c)

\* the promise of callWorker rejects with error (an Error or an AbortError): the
\* catch block of the awaiting function and what follows it
CallRejected(B, c, error) ==
  LET op == B.calls[c].op
      B1 == [B EXCEPT !.calls[c].failure = error]
  IN CASE op = "loadModel" -> DirectLoadModel(MarkFailed(B1), c)
       [] op = "estimateDepth" ->
            IF error = "AbortError" THEN Settle(B1, c, "rejected", "AbortError")
            ELSE DirectEstimateDepth(MarkFailed(B1), c)
       [] op = "generateMesh" ->
            IF error = "AbortError" THEN Settle(B1, c, "rejected", "AbortError")
            ELSE Settle(B1, c, "resolved-null", Null)
       [] OTHER -> DisposeAfterCall(B1, c)

\* the promise of callWorker resolves with the worker's result
CallResolved(B, c) ==
  IF B.calls[c].op = "dispose" THEN DisposeAfterCall(B, c)
  ELSE Settle(B, c, "resolved-worker", Null)

\* callWorker(message, options): nextId, the aborted check, the pendingCalls
\* entry, postMessage on `worker!`
CallWorker(B, c) ==
  LET id == B.msgCounter + 1
      B1 == [B EXCEPT !.msgCounter = id, !.calls[c].id = id,
                      !.calls[c].modelInWorker =
                         (B.worker # 0 /\ B.workers[B.worker].pipeline # Null)]
      entered == [B1 EXCEPT !.pendingCalls =
                    {e \in B.pendingCalls : e.id # id} \cup {[id |-> id, c |-> c]}]
  IN IF B.calls[c].signal = "aborted" THEN CallRejected(B1, c, "AbortError")
     ELSE IF B.worker = 0 THEN CallRejected(entered, c, "Error")
     ELSE [entered EXCEPT
             !.calls[c].pc = "callWorker",
             !.wire = B.wire \cup {[dir |-> "toWorker", w |-> B.worker, id |-> id,
                                    type |-> B.calls[c].op, tier |-> B.calls[c].tier]}]

\* loadModelViaWorker after `await ensureWorker()`
AfterEnsureWorker(B, c, canWorker) ==
  IF canWorker THEN CallWorker(B, c) ELSE DirectLoadModel(B, c)

\* resolve(canWorker) of the ensureWorker promise made for Worker w
ResolveEnsure(B, w, canWorker) ==
  IF B.workers[w].waiter = Null THEN B
  ELSE AfterEnsureWorker([B EXCEPT !.workers[w].waiter = Null],
                         B.workers[w].waiter, canWorker)

\* the calls whose callWorker promise an entry of pendingCalls holds
Awaiting(B, entries) ==
  {e \in entries : B.calls[e.c].pc = "callWorker" /\ B.calls[e.c].id = e.id}

\* p.reject(...) for every entry, in the order of the map (the order of the ids)
RECURSIVE RejectAll(_, _)
RejectAll(B, entries) ==
  IF entries = {} THEN B
  ELSE LET e == CHOOSE x \in entries : \A y \in entries : x.id <= y.id
       IN RejectAll(CallRejected(B, e.c, "Error"), entries \ {e})

\* getWorkerStatus().mode
getWorkerStatus == IF workerFailed \/ worker = 0 THEN "main-thread" ELSE "worker"

\* the task ends in state B
Becomes(B) ==
  /\ worker' = B.worker
  /\ workerReady' = B.workerReady
  /\ workerFailed' = B.workerFailed
  /\ pendingCalls' = B.pendingCalls
  /\ msgCounter' = B.msgCounter
  /\ workers' = B.workers
  /\ wire' = B.wire
  /\ calls' = B.calls
  /\ settled' = B.settled
  /\ depthPipeline' = B.depthPipeline
  /\ currentModelSize' = B.currentModelSize
  /\ loadCalls' = B.loadCalls
  /\ UNCHANGED <<appVars, hookVars, equivVars, fnVars, deviceDetected>>

\* the state in which caller c has just made the call op (afterFailure: the
\* call is made while workerFailed is set)
Begin(c, op, tier, signal) ==
  [BridgeState EXCEPT !.calls[c] =
     [IdleBridgeCall EXCEPT !.op = op, !.tier = tier, !.signal = signal,
                            !.afterFailure = workerFailed]]

\* a call may start while callWorker can still number every call in flight
MayCall(c) ==
  /\ calls[c].pc = "idle"
  /\ msgCounter + Cardinality({d \in DirectCallers : calls[d].pc = "ensureWorker"})
       < MaxMessages

\* new Worker(...) in ensureWorker, with its initTimeout and its handlers
NewWorker(c) ==
  [alive |-> TRUE, started |-> FALSE, timer |-> TRUE, waiter |-> c, pipeline |-> Null,
   currentModelSize |-> Null, loading |-> {}]

\* loadModelViaWorker(modelSize, onProgress, signal) with ensureWorker up to the
\* first await that waits for an event; created is FALSE when new Worker throws
LoadModelViaWorker(c, tier, signal, created) ==
  /\ MayCall(c)
  /\ LET B == Begin(c, "loadModel", tier, signal)
     IN IF workerFailed THEN Becomes(AfterEnsureWorker(B, c, FALSE))
        ELSE IF worker # 0 /\ workerReady THEN Becomes(AfterEnsureWorker(B, c, TRUE))
        ELSE IF ~created
          THEN Becomes(AfterEnsureWorker([B EXCEPT !.workerFailed = TRUE], c, FALSE))
          ELSE /\ Len(workers) < MaxWorkers
               /\ Becomes([B EXCEPT !.workers = Append(workers, NewWorker(c)),
                                    !.worker = Len(workers) + 1,
                                    !.calls[c].pc = "ensureWorker"])

\* estimateDepthViaWorker(imageData, maxResolution, onProgress, signal)
EstimateDepthViaWorker(c, signal) ==
  /\ MayCall(c)
  /\ LET B == Begin(c, "estimateDepth", Null, signal)
     IN IF ~workerFailed /\ worker # 0 /\ workerReady
          THEN Becomes(CallWorker(B, c))
          ELSE Becomes(DirectEstimateDepth(B, c))

\* generateMeshViaWorker(depthMap, width, height, depthScale, onProgress, signal)
GenerateMeshViaWorker(c, signal) ==
  /\ MayCall(c)
  /\ LET B == Begin(c, "generateMesh", Null, signal)
     IN IF ~workerFailed /\ worker # 0 /\ workerReady
          THEN Becomes(CallWorker(B, c))
          ELSE Becomes(Settle(B, c, "resolved-null", Null))

\* disposeWorker()
DisposeWorker(c) ==
  /\ MayCall(c)
  /\ LET B == Begin(c, "dispose", Null, "none")
     IN IF worker # 0 /\ workerReady /\ ~workerFailed
          THEN Becomes(CallWorker(B, c))
          ELSE Becomes(DisposeReset(B, c))

\* the AbortSignal of the call of c fires; the listener callWorker added runs
\* when the call is waiting for the worker (nothing reads the signal once the
\* call runs on the main thread)
AbortSignalFires(c) ==
  /\ calls[c].pc \in {"ensureWorker", "callWorker"}
  /\ calls[c].signal = "armed"
  /\ LET B == [BridgeState EXCEPT !.calls[c].signal = "aborted"]
         deleted == [B EXCEPT !.pendingCalls =
                       {e \in pendingCalls : e.id # calls[c].id}]
     IN IF calls[c].pc = "callWorker"
          THEN Becomes(CallRejected(deleted, c, "AbortError"))
          ELSE Becomes(B)

\* the initTimeout of the ensureWorker call that created Worker w fires
InitTimeout(w) ==
  /\ workers[w].timer
  /\ LET B == [BridgeState EXCEPT !.workers[w].timer = FALSE]
     IN Becomes(ResolveEnsure(MarkFailed(B), w, FALSE))

\* worker.onerror of Worker w
WorkerOnError(w) ==
  /\ workers[w].alive
  /\ LET B == [BridgeState EXCEPT !.workers[w].timer = FALSE]
         failed == [MarkFailed(B) EXCEPT !.pendingCalls = {}]
         rejected == RejectAll(failed, Awaiting(failed, pendingCalls))
     IN Becomes(ResolveEnsure(rejected, w, FALSE))

\* worker.onmessage of Worker w for the delivered message m
WorkerOnMessage(m) ==
  /\ m \in wire
  /\ m.dir = "toMain"
  /\ LET B == [BridgeState EXCEPT !.wire = wire \ {m}]
         entries == {e \in pendingCalls : e.id = m.id}
         deleted == [B EXCEPT !.pendingCalls = pendingCalls \ entries]
         awaiting == Awaiting(B, entries)
     IN IF m.type = "init"
          THEN Becomes(ResolveEnsure([B EXCEPT !.workerReady = TRUE,
                                               !.workers[m.w].timer = FALSE],
                                     m.w, TRUE))
        ELSE IF entries = {} THEN Becomes(B)
        ELSE IF awaiting = {} THEN Becomes(deleted)
        ELSE LET c == (CHOOSE e \in awaiting : TRUE).c
             IN IF m.type = "result"
                  THEN Becomes(CallResolved(deleted, c))
                  ELSE Becomes(CallRejected(deleted, c, "Error"))

\* the script of Worker w has run: post of the '__init__' message
WorkerStarts(w) ==
  /\ workers[w].alive
  /\ ~workers[w].started
  /\ workers' = [workers EXCEPT ![w].started = TRUE]
  /\ wire' = wire \cup {[dir |-> "toMain", w |-> w, id |-> 0, type |-> "init",
                         tier |-> Null]}
  /\ settled' = {}
  /\ UNCHANGED <<appVars, hookVars, estimatorVars, equivVars, fnVars, worker, workerReady,
                 workerFailed,
                 pendingCalls, msgCounter, calls>>

Reply(m, type) == [dir |-> "toMain", w |-> m.w, id |-> m.id, type |-> type, tier |-> Null]

\* self.onmessage of ProcessingWorker for the request m, up to the first await
\* of its handler; ok is FALSE when the handler's work throws
WorkerReceives(m, ok) ==
  /\ m \in wire
  /\ m.dir = "toWorker"
  /\ workers[m.w].alive
  /\ workers[m.w].started
  /\ LET wk == workers[m.w]
         rest == wire \ {m}
     IN CASE m.type = "loadModel" ->
               IF wk.pipeline # Null /\ wk.currentModelSize = m.tier
                 THEN /\ wire' = rest \cup {Reply(m, "result")}
                      /\ UNCHANGED workers
                 ELSE /\ wire' = rest
                      /\ workers' = [workers EXCEPT ![m.w].loading =
                                       wk.loading \cup {[id |-> m.id, tier |-> m.tier]}]
          [] m.type = "estimateDepth" ->
               /\ wire' = rest \cup
                    {Reply(m, IF wk.pipeline # Null /\ ok THEN "result" ELSE "error")}
               /\ UNCHANGED workers
          [] m.type = "generateMesh" ->
               /\ wire' = rest \cup {Reply(m, IF ok THEN "result" ELSE "error")}
               /\ UNCHANGED workers
          [] OTHER ->
               /\ wire' = rest \cup {Reply(m, "result")}
               /\ workers' = [workers EXCEPT ![m.w].pipeline = Null,
                                             ![m.w].currentModelSize = Null]
  /\ settled' = {}
  /\ UNCHANGED <<appVars, hookVars, estimatorVars, equivVars, fnVars, worker, workerReady,
                 workerFailed,
                 pendingCalls, msgCounter, calls>>

\* handleLoadModel after its awaits: the pipeline is installed and the result
\* posted, or (ok FALSE) the import or pipeline() threw and the error is posted
WorkerLoadFinishes(w, l, ok) ==
  /\ workers[w].alive
  /\ l \in workers[w].loading
  /\ workers' = [workers EXCEPT
                   ![w].loading = workers[w].loading \ {l},
                   ![w].pipeline = IF ok THEN l.tier ELSE workers[w].pipeline,
                   ![w].currentModelSize =
                      IF ok THEN l.tier ELSE workers[w].currentModelSize]
  /\ wire' = wire \cup {[dir |-> "toMain", w |-> w, id |-> l.id,
                         type |-> IF ok THEN "result" ELSE "error", tier |-> Null]}
  /\ settled' = {}
  /\ UNCHANGED <<appVars, hookVars, estimatorVars, equivVars, fnVars, worker, workerReady,
                 workerFailed,
                 pendingCalls, msgCounter, calls>>

\* directLoadModel of a bridge call: detectBestDevice resolves
BridgeDetectResolved(c) ==
  /\ calls[c].pc = "directLoadModel"
  /\ loadCalls[c].pc = "detect"
  /\ loadCalls' = [loadCalls EXCEPT ![c].pc = "pipeline"]
  /\ deviceDetected' = TRUE
  /\ settled' = {}
  /\ UNCHANGED <<appVars, hookVars, equivVars, fnVars, worker, workerReady, workerFailed,
                 pendingCalls, msgCounter, workers, wire, calls, depthPipeline,
                 currentModelSize>>

\* directLoadModel of a bridge call: pipeline() resolves, loadModelViaWorker returns
BridgePipelineResolved(c) ==
  /\ calls[c].pc = "directLoadModel"
  /\ loadCalls[c].pc = "pipeline"
  /\ LET inst == InstallPipeline(loadCalls[c].tier, c)
     IN Becomes(Settle([BridgeState EXCEPT !.depthPipeline = inst.dp,
                                           !.currentModelSize = inst.cms,
                                           !.loadCalls[c] = IdleCall],
                       c, "resolved-main-thread", Null))

\* directLoadModel of a bridge call: pipeline() rejects
BridgePipelineRejected(c) ==
  /\ calls[c].pc = "directLoadModel"
  /\ loadCalls[c].pc = "pipeline"
  /\ Becomes(Settle([BridgeState EXCEPT !.loadCalls[c] = IdleCall], c, "rejected", "Error"))

\* directEstimateDepth: the image has loaded; depthPipeline(imageUrl) is called
DirectImageLoaded(c) ==
  /\ calls[c].pc = "directEstimateDepth"
  /\ IF depthPipeline = NoPipeline
       THEN Becomes(Settle(BridgeState, c, "rejected", "TypeError"))
       ELSE Becomes([BridgeState EXCEPT !.calls[c].pc = "directInference"])

\* directEstimateDepth: inference and post-processing are done
DirectInferenceResolved(c) ==
  /\ calls[c].pc = "directInference"
  /\ Becomes(Settle(BridgeState, c, "resolved-main-thread", Null))

\* directEstimateDepth: the image fails to load, or inference throws
DirectEstimateRejected(c) ==
  /\ calls[c].pc \in {"directEstimateDepth", "directInference"}
  /\ Becomes(Settle(BridgeState, c, "rejected", "Error"))

\* the tier the bridge is asked for (the default of loadModelViaWorker)
BridgeTiers == {"small"}

\* every call is given a signal (one that never fires makes no difference)
Signals == {"armed"}

NextBridge ==
  \/ \E c \in DirectCallers, tier \in BridgeTiers, signal \in Signals, created \in BOOLEAN :
       LoadModelViaWorker(c, tier, signal, created)
  \/ \E c \in DirectCallers, signal \in Signals : EstimateDepthViaWorker(c, signal)
  \/ \E c \in DirectCallers, signal \in Signals : GenerateMeshViaWorker(c, signal)
  \/ \E c \in DirectCallers : DisposeWorker(c)
  \/ \E c \in DirectCallers : AbortSignalFires(c)
  \/ \E w \in 1..Len(workers) : InitTimeout(w)
  \/ \E w \in 1..Len(workers) : WorkerOnError(w)
  \/ \E m \in wire : WorkerOnMessage(m)
  \/ \E w \in 1..Len(workers) : WorkerStarts(w)
  \/ \E m \in wire, ok \in BOOLEAN : WorkerReceives(m, ok)
  \/ \E w \in 1..Len(workers) : \E l \in workers[w].loading, ok \in BOOLEAN :
       WorkerLoadFinishes(w, l, ok)
  \/ \E c \in DirectCallers : BridgeDetectResolved(c)
  \/ \E c \in DirectCallers : BridgePipelineResolved(c)
  \/ \E c \in DirectCallers : BridgePipelineRejected(c)
  \/ \E c \in DirectCallers : DirectImageLoaded(c)
  \/ \E c \in DirectCallers : DirectInferenceResolved(c)
  \/ \E c \in DirectCallers : DirectEstimateRejected(c)

SpecBridge == Init /\ [][NextBridge]_vars

\* C9: when the model was loaded in the worker and the worker call of an
\* estimateDepthViaWorker fails with an error that is not an abort (an error
\* reply or a crash), the call resolves with a result of the main thread; and
\* while workerFailed is set the mode is 'main-thread' and a call made then
\* never waits for a worker.
C9_WorkerFailureTransparent ==
  /\ \A s \in settled :
       (s.op = "estimateDepth" /\ s.modelInWorker /\ s.failure = "Error")
         => s.result = "resolved-main-thread"
  /\ workerFailed => getWorkerStatus = "main-thread"
  /\ \A c \in DirectCallers :
       calls[c].afterFailure => calls[c].pc \notin {"ensureWorker", "callWorker"}

\* the step in which the abort listener of the pending worker call of c runs
AbortedWhilePending(c) ==
  /\ calls[c].pc = "callWorker"
  /\ \/ calls'[c].failure = "AbortError"
     \/ \E s \in settled' : s.c = c /\ s.failure = "AbortError"

\* the step in which the reply m, whose id has no pendingCalls entry, is delivered
StaleReplyDelivered(m) ==
  /\ m \in wire
  /\ m.dir = "toMain"
  /\ m.type # "init"
  /\ \A e \in pendingCalls : e.id # m.id
  /\ wire' = wire \ {m}
  /\ workers'[m.w].alive

\* C10: when the signal of a loadModelViaWorker, estimateDepthViaWorker or
\* generateMeshViaWorker call fires while its worker call is pending, the call
\* rejects with AbortError, its pendingCalls entry is removed, the worker is not
\* marked failed or terminated and nothing is started on the main thread; a
\* reply that arrives for an id without entry changes nothing.
C10_AbortCancelsCall ==
  [][/\ \A c \in DirectCallers :
          AbortedWhilePending(c) =>
            /\ \E s \in settled' : s.c = c /\ s.result = "rejected" /\ s.reason = "AbortError"
            /\ \A e \in pendingCalls' : e.id # calls[c].id
            /\ calls'[c].pc = "idle"
            /\ workerFailed' = workerFailed
            /\ worker' = worker
            /\ workers' = workers
            /\ UNCHANGED <<depthPipeline, currentModelSize, loadCalls>>
     /\ \A m \in wire :
          StaleReplyDelivered(m) =>
            UNCHANGED <<worker, workerReady, workerFailed, pendingCalls, msgCounter,
                        workers, calls, estimatorVars>>]_vars

\* =========================================================================
\* engine/MeshGenerator.ts : generateDepthMesh on a whole depth map
\* (specification SpecMesh).  Depths and z are in thousandths; x and y are in
\* thousandths of the plane's width and height, so that u = x + 500 and
\* v = 500 - y; quotients are rounded down.
\* =========================================================================
MaxSide == 4          \* largest width and height of a depth map handed to the mesher

Abs(a) == IF a < 0 THEN 0 - a ELSE a

RECURSIVE SqrtSearch(_, _, _)
SqrtSearch(n, lo, hi) ==
  IF hi - lo <= 1 THEN lo
  ELSE LET mid == (lo + hi) \div 2
       IN IF mid * mid <= n THEN SqrtSearch(n, mid, hi) ELSE SqrtSearch(n, lo, mid)

\* Math.sqrt(n), rounded down
SqrtFloor(n) == SqrtSearch(n, 0, 46341)

RECURSIVE SumSeq(_)
SumSeq(q) == IF q = <<>> THEN 0 ELSE Head(q) + SumSeq(Tail(q))

\* the triangles of an index buffer, and the index buffer of a list of triangles
TrianglesOf(index) ==
  [t \in 1..(Len(index) \div 3) |-> <<index[3 * t - 2], index[3 * t - 1], index[3 * t]>>]
IndexOf(triangles) ==
  [k \in 1..(3 * Len(triangles)) |-> triangles[((k - 1) \div 3) + 1][((k - 1) % 3) + 1]]

\* new PlaneGeometry(planeWidth, planeHeight, segsX, segsY): (segsX + 1) by
\* (segsY + 1) vertices row by row from the top left, z = 0, and two triangles
\* (a, b, d) and (b, c, d) per grid cell.  Vertex numbers start at 0; vertex i is
\* position[i + 1].
PlaneGeometry(segsX, segsY) ==
  LET gridX1 == segsX + 1
      gridY1 == segsY + 1
      vertex(i) ==
        [x |-> ((2 * (i % gridX1) - segsX) * 500) \div segsX,
         y |-> ((segsY - 2 * (i \div gridX1)) * 500) \div segsY,
         z |-> 0]
      corner(q, j) ==
        LET ix == q % segsX
            iy == q \div segsX
            a == ix + gridX1 * iy
            b == ix + gridX1 * (iy + 1)
            c == (ix + 1) + gridX1 * (iy + 1)
            d == (ix + 1) + gridX1 * iy
        IN <<a, b, d, b, c, d>>[j + 1]
  IN [segsX |-> segsX, segsY |-> segsY,
      position |-> [k \in 1..(gridX1 * gridY1) |-> vertex(k - 1)],
      index |-> [k \in 1..(6 * segsX * segsY) |-> corner((k - 1) \div 6, (k - 1) % 6)]]

\* the loop of generateDepthMesh over the vertices: z from the depth map at
\* the vertex's pixel, then x and y scaled by 1 + z * perspectiveFactor
SetDepth(geometry, o) ==
  LET gridX1 == geometry.segsX + 1
      moved(i, p) ==
        LET px == ((i % gridX1) * (o.width - 1)) \div geometry.segsX
            py == ((i \div gridX1) * (o.height - 1)) \div geometry.segsY
            idx == py * o.width + px
            depth == IF idx \in DOMAIN o.depthMap THEN o.depthMap[idx] ELSE 0
            z == depth * o.depthScale
            scale == 1000 + (z * perspectiveFactor) \div 1000
        IN IF o.perspective
             THEN [x |-> (p.x * scale) \div 1000, y |-> (p.y * scale) \div 1000, z |-> z]
             ELSE [p EXCEPT !.z = z]
  IN [geometry EXCEPT
        !.position = [k \in 1..Len(geometry.position) |-> moved(k - 1, geometry.position[k])]]

\* the triangle has an edge longer than threshold along z
Stretched(geometry, t, threshold) ==
  LET z1 == geometry.position[t[1] + 1].z
      z2 == geometry.position[t[2] + 1].z
      z3 == geometry.position[t[3] + 1].z
  IN ~(Abs(z1 - z2) <= threshold /\ Abs(z2 - z3) <= threshold /\ Abs(z3 - z1) <= threshold)

removeStretchedFaces(geometry, threshold) ==
  LET Kept(t) == ~Stretched(geometry, t, threshold)
  IN [geometry EXCEPT !.index = IndexOf(SelectSeq(TrianglesOf(geometry.index), Kept))]

\* isInMargin of cullEdgeMargin, marginPercent = 0.03
isInMargin(geometry, vertexIndex) ==
  LET u == geometry.position[vertexIndex + 1].x + 500
      v == 500 - geometry.position[vertexIndex + 1].y
  IN u < 30 \/ u > 970 \/ v < 30 \/ v > 970

InMargin(geometry, t) ==
  isInMargin(geometry, t[1]) \/ isInMargin(geometry, t[2]) \/ isInMargin(geometry, t[3])

\* a culling that also drops the margin's vertices from the position buffer
\* and leaves the numbering of the index buffer as it was
cullEdgeMarginDropsVertices(geometry) ==
  LET Kept(t) == ~InMargin(geometry, t)
      inside == {i \in 0..(Len(geometry.position) - 1) : ~isInMargin(geometry, i)}
      Inside(p) == \E i \in inside : geometry.position[i + 1] = p
  IN [geometry EXCEPT !.index = IndexOf(SelectSeq(TrianglesOf(geometry.index), Kept)),
                      !.position = SelectSeq(geometry.position, Inside)]

cullEdgeMargin(geometry) ==
  LET Kept(t) == ~InMargin(geometry, t)
  IN [geometry EXCEPT !.index = IndexOf(SelectSeq(TrianglesOf(geometry.index), Kept))]

\* "Statistical Outlier Removal" of generateDepthMesh: z above
\* mean + 2.5 * stdDev of the positive z is clamped to that threshold
ClampOutliers(geometry) ==
  LET zs == [k \in 1..Len(geometry.position) |-> geometry.position[k].z]
      positive == SelectSeq(zs, LAMBDA z : z > 0)
      count == Len(positive)
      mean == SumSeq(positive) \div (IF count = 0 THEN 1 ELSE count)
      variance == SumSeq([k \in 1..count |-> (positive[k] - mean) * (positive[k] - mean)])
      stdDev == SqrtFloor(variance \div (IF count = 0 THEN 1 ELSE count))
      threshold == mean + (5 * stdDev) \div 2
  IN [geometry EXCEPT
        !.position = [k \in 1..Len(geometry.position) |->
                        IF geometry.position[k].z > threshold
                          THEN [geometry.position[k] EXCEPT !.z = threshold]
                          ELSE geometry.position[k]]]

\* MeshGenerator.generateDepthMesh: the geometry it returns (position and
\* index; normals and colours are one per vertex and are not modelled), with
\* the number of triangles each culling took out and the index buffer handed
\* to cullEdgeMargin
generateDepthMeshGeometry(o) ==
  LET maxSegments == 800
      segsX == IF o.segments = <<>> THEN Min(o.width, maxSegments) ELSE o.segments[1]
      segsY == IF o.segments = <<>> THEN Min(o.height, maxSegments) ELSE o.segments[2]
      g1 == SetDepth(PlaneGeometry(segsX, segsY), o)
      g2 == IF o.stretchRemoval THEN removeStretchedFaces(g1, 200) ELSE g1
      g3 == cullEdgeMargin(g2)
      g4 == IF o.outlierRemoval THEN ClampOutliers(g3) ELSE g3
  IN [kind |-> "geometry", segsX |-> segsX, segsY |-> segsY,
      position |-> g4.position, index |-> g4.index, beforeCull |-> g2.index,
      stretched |->
        IF o.stretchRemoval
          THEN Cardinality({t \in 1..(Len(g1.index) \div 3) :
                              Stretched(g1, TrianglesOf(g1.index)[t], 200)})
          ELSE 0,
      culled |->
        Cardinality({t \in 1..(Len(g2.index) \div 3) :
                       InMargin(g2, TrianglesOf(g2.index)[t])})]

\* the depth maps handed to the mesher: a flat field, a step from near to far
\* in the middle, one far pixel on a near field, and a gentle ramp
Patterns == {"flat", "step", "spike", "ramp"}
DepthMapOf(pattern, width, height) ==
  [idx \in 0..(width * height - 1) |->
     CASE pattern = "flat" -> 500
       [] pattern = "step" -> IF 2 * (idx % width) < width THEN 200 ELSE 900
       [] pattern = "spike" -> IF idx = (width * height) \div 2 THEN 1000 ELSE 100
       [] OTHER -> (idx % width) * 80]
SegmentOptions == {<<>>, <<2, 3>>, <<MaxSide, 1>>}
MeshOptions ==
  {[kind |-> "generateDepthMesh", depthMap |-> DepthMapOf(p, w, h), width |-> w,
    height |-> h, depthScale |-> ds, segments |-> sg, outlierRemoval |-> orm,
    perspective |-> ps, stretchRemoval |-> sr] :
     p \in Patterns, w \in 1..MaxSide, h \in 1..MaxSide, ds \in {2, 4},
     sg \in SegmentOptions, orm \in BOOLEAN, ps \in BOOLEAN, sr \in BOOLEAN}

InitMesh ==
  /\ InitApp /\ InitEstimator /\ InitEquivIdle /\ InitBridge
  /\ fnArgs \in MeshOptions
  /\ fnResult = NoOutput

GenerateDepthMesh ==
  /\ fnArgs.kind = "generateDepthMesh"
  /\ fnResult = NoOutput
  /\ fnResult' = generateDepthMeshGeometry(fnArgs)
  /\ UNCHANGED <<appVars, hookVars, estimatorVars, equivVars, bridgeVars, fnArgs>>

\* ---- smoothMesh
MaxIterations == 3    \* largest iteration count handed to smoothMesh

\* the adjacency list smoothMesh builds from the index buffer
neighbors(geometry, i) ==
  LET ts == TrianglesOf(geometry.index)
  IN {n \in 0..(Len(geometry.position) - 1) :
        \E t \in 1..Len(ts) :
          \/ ts[t][1] = i /\ n \in {ts[t][2], ts[t][3]}
          \/ ts[t][2] = i /\ n \in {ts[t][1], ts[t][3]}
          \/ ts[t][3] = i /\ n \in {ts[t][1], ts[t][2]}}

RECURSIVE SumZ(_, _)
SumZ(position, ns) ==
  IF ns = {} THEN 0
  ELSE LET n == CHOOSE m \in ns : TRUE
       IN position[n + 1].z + SumZ(position, ns \ {n})

\* a pass that divides the neighbours' sum by the vertex count
TaubinPassAveragesOverAll(geometry, factor) ==
  LET count == Len(geometry.position)
      after(i) ==
        LET nbrs == neighbors(geometry, i)
            z == geometry.position[i + 1].z
        IN IF nbrs = {} THEN z
           ELSE z + (factor * (SumZ(geometry.position, nbrs) - count * z)) \div (100 * count)
  IN [geometry EXCEPT
        !.position = [k \in 1..count |-> [geometry.position[k] EXCEPT !.z = after(k - 1)]]]

\* a pass that leaves the new z of a vertex without neighbours at the 0 the
\* Float32Array was created with
TaubinPassDropsIsolated(geometry, factor) ==
  LET after(i) ==
        LET nbrs == neighbors(geometry, i)
            size == Cardinality(nbrs)
            z == geometry.position[i + 1].z
        IN IF size = 0 THEN 0
           ELSE z + (factor * (SumZ(geometry.position, nbrs) - size * z)) \div (100 * size)
  IN [geometry EXCEPT
        !.position = [k \in 1..Len(geometry.position) |->
                        [geometry.position[k] EXCEPT !.z = after(k - 1)]]]

\* one pass of smoothMesh (lambda: factor 50, mu: factor -53, in hundredths):
\* z + factor * (avgZ - z) for every vertex from the z before the pass, then
\* setZ for every vertex
TaubinPass(geometry, factor) ==
  LET after(i) ==
        LET nbrs == neighbors(geometry, i)
            size == Cardinality(nbrs)
            z == geometry.position[i + 1].z
        IN IF size = 0 THEN z
           ELSE z + (factor * (SumZ(geometry.position, nbrs) - size * z)) \div (100 * size)
  IN [geometry EXCEPT
        !.position = [k \in 1..Len(geometry.position) |->
                        [geometry.position[k] EXCEPT !.z = after(k - 1)]]]

\* MeshGenerator.smoothMesh: the geometry it was handed, as it returns it
RECURSIVE smoothMesh(_, _)
smoothMesh(geometry, iterations) ==
  IF iterations <= 0 THEN geometry
  ELSE smoothMesh(TaubinPass(TaubinPass(geometry, 50), 0 - 53), iterations - 1)

\* geometry = smoothMesh(geometry, iterations) on the mesh generateDepthMesh
\* returned
SmoothMesh(iterations) ==
  /\ fnArgs.kind = "generateDepthMesh"
  /\ fnResult # NoOutput
  /\ fnArgs' = [kind |-> "smoothMesh", geometry |-> fnResult, iterations |-> iterations]
  /\ fnResult' = smoothMesh(fnResult, iterations)
  /\ UNCHANGED <<appVars, hookVars, estimatorVars, equivVars, bridgeVars>>

NextMesh ==
  \/ GenerateDepthMesh
  \/ \E iterations \in 0..MaxIterations : SmoothMesh(iterations)

SpecMesh == InitMesh /\ [][NextMesh]_vars

\* C11: generateDepthMesh returns exactly (segX + 1) * (segY + 1) vertices for
\* every combination of perspective, stretchRemoval and outlierRemoval; its
\* index buffer has at most segX * segY * 6 entries, a multiple of 3, each the
\* number of an existing vertex, and fewer than segX * segY * 6 entries when
\* stretch removal or edge culling discarded a triangle.
C11_MeshCounts ==
  (fnArgs.kind = "generateDepthMesh" /\ fnResult # NoOutput) =>
    LET segX == IF fnArgs.segments = <<>> THEN Min(fnArgs.width, 800) ELSE fnArgs.segments[1]
        segY == IF fnArgs.segments = <<>> THEN Min(fnArgs.height, 800) ELSE fnArgs.segments[2]
    IN /\ Len(fnResult.position) = (segX + 1) * (segY + 1)
       /\ Len(fnResult.index) <= segX * segY * 6
       /\ Len(fnResult.index) % 3 = 0
       /\ \A k \in 1..Len(fnResult.index) :
            fnResult.index[k] \in 0..(Len(fnResult.position) - 1)
       /\ (fnResult.stretched + fnResult.culled > 0)
            => Len(fnResult.index) < segX * segY * 6

\* a mesh from which stretch removal took triangles and edge culling took
\* others, with triangles left
C11_Witness ==
  /\ fnArgs.kind = "generateDepthMesh"
  /\ fnResult # NoOutput
  /\ fnArgs.perspective /\ fnArgs.stretchRemoval /\ fnArgs.outlierRemoval
  /\ fnResult.stretched > 0
  /\ fnResult.culled > 0
  /\ Len(fnResult.index) > 0

\* =========================================================================
\* engine/MultiViewAligner (Persistence.ts) : computeDepthOverlap and
\* alignMeshes (specification SpecAlign).  Depth samples are in thousandths.
\* The histograms are Float32Arrays: a normalised bin is the float32 nearest to
\* count / length, held here as a whole number of 2^-30.
\* =========================================================================
MaxSamples == 3       \* longest depth field the overlap is enumerated on
MaxMeshes == 3        \* longest list of meshes handed to alignMeshes

RECURSIVE Pow2(_)
Pow2(k) == IF k = 0 THEN 1 ELSE 2 * Pow2(k - 1)

\* 1.0 in units of 2^-30
One == Pow2(30)

\* a / n rounded to the nearest whole number, ties to even
RoundHalfEven(a, n) ==
  LET q == a \div n
      r == a % n
  IN IF 2 * r > n \/ (2 * r = n /\ q % 2 = 1) THEN q + 1 ELSE q

RECURSIVE Exponent(_, _, _)
\* the least e with c * 2^e >= n
Exponent(c, n, e) == IF c * Pow2(e) >= n THEN e ELSE Exponent(c, n, e + 1)

\* histA[i] /= sumA in a Float32Array: c / n rounded to 24 significant bits
Float32Ratio(c, n) ==
  IF c = 0 THEN 0
  ELSE LET e == Exponent(c, n, 0)
       IN RoundHalfEven(c * Pow2(23 + e), n) * Pow2(7 - e)

\* Math.min(Math.floor(d * bins), bins - 1), bins = 32
BinOf(d) == Min((d * 32) \div 1000, 31)

\* the normalised histogram of a depth field
Histogram(depth) ==
  LET sum == IF Len(depth) = 0 THEN 1 ELSE Len(depth)
  IN [bin \in 0..31 |->
        Float32Ratio(Cardinality({i \in 1..Len(depth) : BinOf(depth[i]) = bin}), sum)]

\* Math.sqrt(a * b) for two bins: exact when one is 0 or both are equal, and
\* otherwise bracketed from 15 bits of each
SqrtOfProduct(a, b) ==
  IF a = 0 \/ b = 0 THEN [lo |-> 0, hi |-> 0]
  ELSE IF a = b THEN [lo |-> a, hi |-> a]
  ELSE LET a15 == a \div Pow2(15)
           b15 == b \div Pow2(15)
       IN [lo |-> SqrtFloor(a15 * b15) * Pow2(15),
           hi |-> (SqrtFloor((a15 + 1) * (b15 + 1)) + 1) * Pow2(15)]

\* a histogram whose bins are smoothed into their neighbours, so that fields
\* in different bins still overlap
computeDepthOverlapSmoothed(depthA, depthB) ==
  LET histA == Histogram(depthA)
      histB == Histogram(depthB)
      spread(h, i) ==
        Max(h[i], Max(IF i >= 12 THEN h[i - 12] ELSE 0, IF i <= 19 THEN h[i + 12] ELSE 0) \div 8)
      term == [i \in 1..32 |-> SqrtOfProduct(spread(histA, i - 1), spread(histB, i - 1))]
  IN [lo |-> SumSeq([i \in 1..32 |-> term[i].lo]),
      hi |-> SumSeq([i \in 1..32 |-> term[i].hi])]

\* computeDepthOverlap: the Bhattacharyya coefficient of the two histograms,
\* as the bounds lo <= bc <= hi in units of 2^-30 (lo = hi: bc is exactly that)
computeDepthOverlap(depthA, depthB) ==
  LET histA == Histogram(depthA)
      histB == Histogram(depthB)
      term == [i \in 1..32 |-> SqrtOfProduct(histA[i - 1], histB[i - 1])]
  IN [lo |-> SumSeq([i \in 1..32 |-> term[i].lo]),
      hi |-> SumSeq([i \in 1..32 |-> term[i].hi])]

\* the depth fields the overlap is computed on: every field of up to
\* MaxSamples samples out of three depths, and the uniform 4 by 4 fields
SampleDepths == {100, 500, 900}
Uniform(n, d) == [i \in 1..n |-> d]
OverlapFields ==
  UNION {[1..n -> SampleDepths] : n \in 0..MaxSamples}
    \cup {Uniform(16, d) : d \in SampleDepths}
OverlapInputs == [kind : {"computeDepthOverlap"}, depthA : OverlapFields, depthB : OverlapFields]

NoOverlaps == [kind |-> "overlap", ab |-> NoOutput, ba |-> NoOutput]

\* ---- alignMeshes.  A mesh refers to its geometry by number; geometries[g] is
\* the position attribute of geometry g, in units of 0.0001.

\* the overlap in thousandths
OverlapThousandths(overlap) == ((overlap.lo \div Pow2(15)) * 1000) \div Pow2(15)

RECURSIVE SumPixels(_, _, _)
\* sum += depthMap[y * width + x] over the pixels <<x, y>>
SumPixels(depthMap, width, pixels) ==
  IF pixels = {} THEN 0
  ELSE LET p == CHOOSE q \in pixels : TRUE
       IN depthMap[p[2] * width + p[1] + 1] + SumPixels(depthMap, width, pixels \ {p})

\* extractGridFeatures for depth maps less than 16 wide and high: a cell of the
\* 8 by 8 grid holds at most one pixel, so its variance and its gradient are 0
\* and only its mean depth is kept.  Descriptor 8 * row + col + 1 is cell (row, col).
extractGridFeatures(depthMap, width, height) ==
  LET cellW == width \div 8
      cellH == height \div 8
      cell(row, col) ==
        LET xs == (col * cellW)..(Min(col * cellW + cellW, width) - 1)
            ys == (row * cellH)..(Min(row * cellH + cellH, height) - 1)
            count == Cardinality(xs) * Cardinality(ys)
            sum == SumPixels(depthMap, width, xs \X ys)
        IN [meanDepth |-> IF count > 0 THEN sum \div count ELSE 0, row |-> row, col |-> col]
  IN [k \in 1..64 |-> cell((k - 1) \div 8, (k - 1) % 8)]

\* cellNCC of two descriptors [meanDepth, 0, 0], in thousandths
cellNCC(a, b) == IF a.meanDepth > 0 /\ b.meanDepth > 0 THEN 1000 ELSE 0

\* computeFeatureOffset, in units of 0.0001
computeFeatureOffset(depthA, widthA, heightA, depthB, widthB, heightB) ==
  LET featA == extractGridFeatures(depthA, widthA, heightA)
      featB == extractGridFeatures(depthB, widthB, heightB)
      bestScore ==
        [a \in 1..64 |->
           IF \E k \in 1..64 : cellNCC(featA[a], featB[k]) = 1000 THEN 1000 ELSE 0]
      \* the first cell of B with the best score
      bestB ==
        [a \in 1..64 |->
           featB[CHOOSE k \in 1..64 :
                   /\ cellNCC(featA[a], featB[k]) = bestScore[a]
                   /\ \A j \in 1..(k - 1) : cellNCC(featA[a], featB[j]) < bestScore[a]]]
      matched == {a \in 1..64 : bestScore[a] > 800}
      matches == Cardinality(matched)
      total(f) == SumSeq([a \in 1..64 |-> IF a \in matched THEN f[a] ELSE 0])
      totalDx == total([a \in 1..64 |-> bestB[a].col - featA[a].col])
      totalDy == total([a \in 1..64 |-> bestB[a].row - featA[a].row])
      totalDz == total([a \in 1..64 |-> bestB[a].meanDepth - featA[a].meanDepth])
  IN IF matches = 0 THEN [x |-> 0, y |-> 0, z |-> 0]
     ELSE [x |-> (totalDx * 5000) \div matches,
           y |-> (totalDy * 5000) \div matches,
           z |-> (totalDz * 5) \div matches]

\* transform.makeTranslation(adjustedSpacing * i + featureOffset.x, ...) for
\* meshes[i] after meshes[i - 1]
Translation(prev, curr, i) ==
  LET overlap == OverlapThousandths(computeDepthOverlap(prev.depthMap, curr.depthMap))
      featureOffset == computeFeatureOffset(prev.depthMap, prev.width, prev.height,
                                            curr.depthMap, curr.width, curr.height)
      adjustedSpacing == 50000 - 35 * overlap
  IN [x |-> adjustedSpacing * i + featureOffset.x, y |-> featureOffset.y,
      z |-> featureOffset.z]

\* geometry.applyMatrix4 of a translation
Translated(position, t) ==
  [k \in 1..Len(position) |->
     [x |-> position[k].x + t.x, y |-> position[k].y + t.y, z |-> position[k].z + t.z]]

\* a loop that translates curr.geometry itself
RECURSIVE AlignFromInPlace(_, _, _, _)
AlignFromInPlace(meshes, i, aligned, geometries) ==
  IF i >= Len(meshes) THEN [ret |-> aligned, geometries |-> geometries]
  ELSE LET curr == meshes[i + 1]
           t == Translation(meshes[i], curr, i)
       IN AlignFromInPlace(meshes, i + 1, Append(aligned, curr),
            [geometries EXCEPT ![curr.geometry] = Translated(geometries[curr.geometry], t)])

\* the loop of alignMeshes from meshes[i] on, 0-based
RECURSIVE AlignFrom(_, _, _, _)
AlignFrom(meshes, i, aligned, geometries) ==
  IF i >= Len(meshes) THEN [ret |-> aligned, geometries |-> geometries]
  ELSE LET curr == meshes[i + 1]
           t == Translation(meshes[i], curr, i)
           translatedGeo == Len(geometries) + 1
       IN AlignFrom(meshes, i + 1, Append(aligned, [curr EXCEPT !.geometry = translatedGeo]),
                    Append(geometries, Translated(geometries[curr.geometry], t)))

\* MultiViewAligner.alignMeshes: the list it returns and the geometries after
\* the call
alignMeshesGeometry(meshes, geometries) ==
  IF Len(meshes) <= 1 THEN [ret |-> meshes, geometries |-> geometries]
  ELSE AlignFrom(meshes, 1, <<meshes[1]>>, geometries)

\* the meshes handed to alignMeshes: mesh k of the list has geometry k, two
\* vertices, and one of four depth maps
HalfField == [k \in 1..64 |-> IF (k - 1) % 8 < 4 THEN 0 ELSE 700]
AlignFields ==
  {[width |-> 4, height |-> 4, depthMap |-> Uniform(16, 500)],
   [width |-> 4, height |-> 4, depthMap |-> Uniform(16, 900)],
   [width |-> 8, height |-> 8, depthMap |-> Uniform(64, 500)],
   [width |-> 8, height |-> 8, depthMap |-> HalfField]}
MeshOf(k, field) ==
  [photoId |-> k, geometry |-> k, textureUrl |-> k, depthMap |-> field.depthMap,
   width |-> field.width, height |-> field.height]
GeometryOf(k) ==
  <<[x |-> 0, y |-> 0, z |-> 0], [x |-> 10000 * k, y |-> 20000, z |-> 0 - 5000]>>
AlignInputs ==
  {[kind |-> "alignMeshes", meshes |-> [k \in 1..Len(fields) |-> MeshOf(k, fields[k])],
    geometries |-> [k \in 1..Len(fields) |-> GeometryOf(k)]] :
     fields \in UNION {[1..n -> AlignFields] : n \in 0..MaxMeshes}}

InitAlign ==
  /\ InitApp /\ InitEstimator /\ InitEquivIdle /\ InitBridge
  /\ fnArgs \in OverlapInputs \cup AlignInputs
  /\ fnResult = IF fnArgs.kind = "computeDepthOverlap" THEN NoOverlaps ELSE NoOutput

\* computeDepthOverlap(depthA, depthB) and computeDepthOverlap(depthB, depthA)
ComputeDepthOverlap(first, second) ==
  /\ fnArgs.kind = "computeDepthOverlap"
  /\ fnResult[first \o second] = NoOutput
  /\ fnResult' =
       [fnResult EXCEPT ![first \o second] =
          computeDepthOverlap(fnArgs["depth" \o (IF first = "a" THEN "A" ELSE "B")],
                              fnArgs["depth" \o (IF second = "a" THEN "A" ELSE "B")])]
  /\ UNCHANGED <<appVars, hookVars, estimatorVars, equivVars, bridgeVars, fnArgs>>

AlignMeshes ==
  /\ fnArgs.kind = "alignMeshes"
  /\ fnResult = NoOutput
  /\ fnResult' = alignMeshesGeometry(fnArgs.meshes, fnArgs.geometries)
  /\ UNCHANGED <<appVars, hookVars, estimatorVars, equivVars, bridgeVars, fnArgs>>

NextAlign ==
  \/ AlignMeshes
  \/ \E pair \in {<<"a", "b">>, <<"b", "a">>} : ComputeDepthOverlap(pair[1], pair[2])

SpecAlign == InitAlign /\ [][NextAlign]_vars

\* =========================================================================
\* engine/DepthEstimator.ts : estimateDepth from the model's result on
\* (specification SpecDepth)
\* =========================================================================
\* what `await depthPipeline(imageUrl)` resolves with: an empty array, or one
\* output (alone or in an array) without a depth tensor or with a depth tensor
\* of `length` samples that says it is width by height
NoTensor == [length |-> 0 - 1, width |-> 0, height |-> 0]
DepthTensors ==
  {[length |-> w * h, width |-> w, height |-> h] : w \in {0, 256, 518}, h \in {0, 256, 518}}
    \cup {[length |-> 0, width |-> w, height |-> h] : w \in {256, 518}, h \in {256, 518}}
PipelineResults ==
  {[shape |-> "array", outputs |-> 0, depth |-> NoTensor]}
    \cup [shape : {"array", "single"}, outputs : {1}, depth : {NoTensor} \cup DepthTensors]

\* estimateDepth after `const result = await depthPipeline(imageUrl)`: a
\* TypeError when there is no output or the output has no depth tensor, and
\* otherwise the stages of estimateDepth on whatever the tensor holds
estimateDepthFromResult(args, result) ==
  IF result.outputs = 0 \/ result.depth = NoTensor
    THEN [kind |-> "rejected", error |-> "TypeError", result |-> result]
    ELSE LET out == estimateDepth([depthW |-> result.depth.width,
                                   depthH |-> result.depth.height,
                                   imgW |-> args.imgW, imgH |-> args.imgH,
                                   maxResolution |-> args.maxResolution,
                                   canvas |-> args.canvas])
         IN [kind |-> "resolved", result |-> result, stages |-> out.stages,
             \* resized = smoothed when the sizes agree, else a new
             \* Float32Array(w * h)
             samples |-> IF result.depth.width = out.width /\ result.depth.height = out.height
                           THEN result.depth.length
                           ELSE out.width * out.height,
             width |-> out.width, height |-> out.height]

EstimateDepthArgs ==
  [kind : {"estimateDepth"}, imgW : ImageSides, imgH : ImageSides,
   maxResolution : MaxResolutions, canvas : BOOLEAN]

InitDepth ==
  /\ InitApp /\ InitEstimator /\ InitEquivIdle /\ InitBridge
  /\ fnArgs \in EstimateDepthArgs
  /\ fnResult = NoOutput

\* `await depthPipeline(imageUrl)` resolves, and estimateDepth runs to its end
DepthPipelineResolved(result) ==
  /\ fnArgs.kind = "estimateDepth"
  /\ fnResult = NoOutput
  /\ fnResult' = estimateDepthFromResult(fnArgs, result)
  /\ UNCHANGED <<appVars, hookVars, estimatorVars, equivVars, bridgeVars, fnArgs>>

NextDepth ==
  \/ \E result \in PipelineResults : DepthPipelineResolved(result)

SpecDepth == InitDepth /\ [][NextDepth]_vars

\* =========================================================================
\* engine/MultiViewAligner (Persistence.ts) : icpAlign and mergePointClouds
\* (specification SpecFuse).  A point is [x, y, z] in thousandths; quotients
\* are rounded down.
\* =========================================================================
MaxClouds == 3        \* longest list of meshes handed to mergePointClouds

\* the key `${Math.round(x / res)},${Math.round(y / res)},${Math.round(z / res)}`
CellOf(p, res) == <<Round(p.x, res), Round(p.y, res), Round(p.z, res)>>

\* (sx - tx) ** 2 + (sy - ty) ** 2 + (sz - tz) ** 2
Dist2(a, b) ==
  (a.x - b.x) * (a.x - b.x) + (a.y - b.y) * (a.y - b.y) + (a.z - b.z) * (a.z - b.z)

\* the targets in the 3x3x3 cells around the cell of s, gridRes = 0.1
NearTargets(s, targetPoints) ==
  {ti \in 1..Len(targetPoints) :
     \A k \in 1..3 : Abs(CellOf(targetPoints[ti], 100)[k] - CellOf(s, 100)[k]) <= 1}

\* the place of target ti in the order the search visits the targets: cell by
\* cell over dx, dy, dz, and by index inside a cell
VisitRank(s, targetPoints, ti) ==
  LET c == CellOf(targetPoints[ti], 100)
      g == CellOf(s, 100)
  IN ((c[1] - g[1] + 1) * 9 + (c[2] - g[2] + 1) * 3 + (c[3] - g[3] + 1))
       * (Len(targetPoints) + 1) + ti

\* a search that passes over the target with the source point's own index
NearestTargetSkipsOwnIndex(i, s, targetPoints) ==
  LET near == NearTargets(s, targetPoints) \ {i}
  IN IF near = {} THEN 0
     ELSE CHOOSE ti \in near :
            \A tj \in near :
              \/ Dist2(s, targetPoints[ti]) < Dist2(s, targetPoints[tj])
              \/ /\ Dist2(s, targetPoints[ti]) = Dist2(s, targetPoints[tj])
                 /\ VisitRank(s, targetPoints, ti) <= VisitRank(s, targetPoints, tj)

\* bestIdx for source point number i at s (1-based; 0: none): the first target
\* visited among the nearest
NearestTarget(i, s, targetPoints) ==
  LET near == NearTargets(s, targetPoints)
  IN IF near = {} THEN 0
     ELSE CHOOSE ti \in near :
            \A tj \in near :
              \/ Dist2(s, targetPoints[ti]) < Dist2(s, targetPoints[tj])
              \/ /\ Dist2(s, targetPoints[ti]) = Dist2(s, targetPoints[tj])
                 /\ VisitRank(s, targetPoints, ti) <= VisitRank(s, targetPoints, tj)

\* the loop of icpAlign from iteration iter on (0-based), src the working copy
RECURSIVE IcpIterate(_, _, _, _)
IcpIterate(src, targetPoints, iter, cumulativeTranslation) ==
  LET srcCount == Len(src)
      step == Max(1, srcCount \div 2000)
      best == [i \in 1..srcCount |->
                 IF (i - 1) % step = 0 THEN NearestTarget(i, src[i], targetPoints) ELSE 0]
      matched == {i \in 1..srcCount :
                    best[i] > 0 /\ Dist2(src[i], targetPoints[best[i]]) < 1000000}
      matchCount == Cardinality(matched)
      sumOf(f) == SumSeq([i \in 1..srcCount |-> IF i \in matched THEN f[i] ELSE 0])
      d == [x |-> sumOf([i \in 1..srcCount |-> targetPoints[best[i]].x]) \div matchCount
                    - sumOf([i \in 1..srcCount |-> src[i].x]) \div matchCount,
            y |-> sumOf([i \in 1..srcCount |-> targetPoints[best[i]].y]) \div matchCount
                    - sumOf([i \in 1..srcCount |-> src[i].y]) \div matchCount,
            z |-> sumOf([i \in 1..srcCount |-> targetPoints[best[i]].z]) \div matchCount
                    - sumOf([i \in 1..srcCount |-> src[i].z]) \div matchCount]
      moved == [x |-> cumulativeTranslation.x + d.x, y |-> cumulativeTranslation.y + d.y,
                z |-> cumulativeTranslation.z + d.z]
  IN IF iter >= 20
       THEN [translation |-> cumulativeTranslation, iterations |-> iter, degenerate |-> FALSE]
     ELSE IF matchCount < 3
       THEN [translation |-> cumulativeTranslation, iterations |-> iter + 1,
             degenerate |-> TRUE]
     \* change < tolerance: less than one thousandth
     ELSE IF d.x * d.x + d.y * d.y + d.z * d.z < 1
       THEN [translation |-> moved, iterations |-> iter + 1, degenerate |-> FALSE]
     ELSE IcpIterate([i \in 1..srcCount |->
                        [x |-> src[i].x + d.x, y |-> src[i].y + d.y, z |-> src[i].z + d.z]],
                     targetPoints, iter + 1, moved)

\* icpAlign(sourcePoints, targetPoints): the translation of the matrix it
\* returns, the number of iterations it began, and whether it left the loop at
\* `if (matchCount < 3) break`
icpAlign(sourcePoints, targetPoints) ==
  IF Len(sourcePoints) = 0 \/ Len(targetPoints) = 0
    THEN [translation |-> [x |-> 0, y |-> 0, z |-> 0], iterations |-> 0,
          degenerate |-> FALSE]
    ELSE IcpIterate(sourcePoints, targetPoints, 0, [x |-> 0, y |-> 0, z |-> 0])

\* voxelSize, by the number of points collected
VoxelSizeOf(totalPoints) ==
  IF totalPoints > 500000 THEN 100 ELSE IF totalPoints > 100000 THEN 70 ELSE 50

\* allPositions: the positions of all meshes, mesh after mesh
RECURSIVE CollectPositions(_, _, _)
CollectPositions(meshes, i, geometries) ==
  IF i > Len(meshes) THEN <<>>
  ELSE geometries[meshes[i].geometry] \o CollectPositions(meshes, i + 1, geometries)

\* a merge that gives every point a voxel of its own
VoxelMergeKeepsAll(allPositions, voxelSize) == allPositions

\* the voxel map, averaged: one point per key, in the order the keys were first
\* seen, the mean of the points that have the key
VoxelMerge(allPositions, voxelSize) ==
  LET n == Len(allPositions)
      keys == [k \in 1..n |-> CellOf(allPositions[k], voxelSize)]
      first == [k \in 1..n |-> \A j \in 1..(k - 1) : keys[j] # keys[k]]
      firsts == SelectSeq([k \in 1..n |-> k], LAMBDA k : first[k])
      voxel(k) ==
        LET same == [j \in 1..n |-> keys[j] = keys[k]]
            count == SumSeq([j \in 1..n |-> IF same[j] THEN 1 ELSE 0])
        IN [x |-> SumSeq([j \in 1..n |-> IF same[j] THEN allPositions[j].x ELSE 0]) \div count,
            y |-> SumSeq([j \in 1..n |-> IF same[j] THEN allPositions[j].y ELSE 0]) \div count,
            z |-> SumSeq([j \in 1..n |-> IF same[j] THEN allPositions[j].z ELSE 0]) \div count]
  IN [v \in 1..Len(firsts) |-> voxel(firsts[v])]

\* the sum of the nk smallest of dists (dists.sort, then the first nk)
RECURSIVE SmallestSum(_, _)
SmallestSum(dists, nk) ==
  IF nk = 0 \/ dists = <<>> THEN 0
  ELSE LET m == CHOOSE j \in 1..Len(dists) : \A l \in 1..Len(dists) : dists[j] <= dists[l]
       IN dists[m]
            + SmallestSum([l \in 1..(Len(dists) - 1) |-> IF l < m THEN dists[l] ELSE dists[l + 1]],
                          nk - 1)

\* avgDists[i] of statisticalOutlierRemoval for the sampled point i (1-based):
\* the mean distance to its k = 8 nearest neighbours in the 3x3x3 cells of
\* gridRes = 0.15 around it
AvgDist(positions, i) ==
  LET near == SelectSeq([ni \in 1..Len(positions) |-> ni],
                        LAMBDA ni :
                          /\ ni # i
                          /\ \A c \in 1..3 :
                               Abs(CellOf(positions[ni], 150)[c]
                                     - CellOf(positions[i], 150)[c]) <= 1)
      dists == [j \in 1..Len(near) |-> SqrtFloor(Dist2(positions[i], positions[near[j]]))]
      nk == Min(8, Len(dists))
  IN IF nk > 0 THEN SmallestSum(dists, nk) \div nk ELSE 0

\* statisticalOutlierRemoval(positions, ...): outPositions
statisticalOutlierRemoval(positions) ==
  LET count == Len(positions)
      step == Max(1, count \div 50000)
      sampled == {i \in 1..count : (i - 1) % step = 0}
      ofSampled == [i \in sampled |-> AvgDist(positions, i)]
      avgDists == [i \in 1..count |-> ofSampled[i - ((i - 1) % step)]]
      validCount == SumSeq([i \in 1..count |-> IF avgDists[i] > 0 THEN 1 ELSE 0])
      mean == SumSeq(avgDists) \div Max(validCount, 1)
      varianceSum ==
        SumSeq([i \in 1..count |->
                  IF avgDists[i] > 0 THEN (avgDists[i] - mean) * (avgDists[i] - mean) ELSE 0])
      stdDev == SqrtFloor(varianceSum \div Max(validCount, 1))
      cutoff == mean + 2 * stdDev
      kept == SelectSeq([i \in 1..count |-> i],
                        LAMBDA i : avgDists[i] <= cutoff \/ avgDists[i] = 0)
  IN IF count < 8 + 1 THEN positions
     ELSE [j \in 1..Len(kept) |-> positions[kept[j]]]

\* the loop `for (let i = 1; i < meshes.length; i++)` of mergePointClouds from
\* the 1-based position i on: meshes[i].geometry.applyMatrix4(icpTransform)
RECURSIVE IcpLoop(_, _, _)
IcpLoop(meshes, i, geometries) ==
  IF i > Len(meshes) THEN geometries
  ELSE LET src == geometries[meshes[i].geometry]
           tgt == geometries[meshes[i - 1].geometry]
       IN IcpLoop(meshes, i + 1,
                  [geometries EXCEPT ![meshes[i].geometry] =
                     Translated(src, icpAlign(src, tgt).translation)])

\* mergePointClouds(meshes): the list it returns and the geometries after the
\* call; the merged geometry is a new one
mergePointCloudsGeometry(meshes, geometries) ==
  IF Len(meshes) <= 1 THEN [kind |-> "merged", ret |-> meshes, geometries |-> geometries]
  ELSE LET allPositions == CollectPositions(meshes, 1, geometries)
           after == IcpLoop(meshes, 2, geometries)
           mergedPositions == VoxelMerge(allPositions, VoxelSizeOf(Len(allPositions)))
           mergedMesh == [meshes[1] EXCEPT !.photoId = "merged-cloud",
                                           !.geometry = Len(geometries) + 1]
       IN [kind |-> "merged", ret |-> <<mergedMesh>> \o meshes,
           geometries |-> Append(after, statisticalOutlierRemoval(mergedPositions))]

\* the clouds of the inputs: three points, the same three 0.02 further, the
\* same three 5 further, three points two of which are 0.01 apart, and a 3x3
\* grid of points 0.1 apart with a tenth point 0.2 beside it
Shifted(position, dx) == Translated(position, [x |-> dx, y |-> 0, z |-> 0])
Triangle == <<[x |-> 0, y |-> 0, z |-> 0], [x |-> 100, y |-> 0, z |-> 0],
              [x |-> 0, y |-> 100, z |-> 0]>>
Cluster ==
  [k \in 1..9 |-> [x |-> 1000 + 100 * ((k - 1) % 3), y |-> 100 * ((k - 1) \div 3), z |-> 0]]
    \o <<[x |-> 1400, y |-> 200, z |-> 0]>>
Clouds ==
  {Triangle, Shifted(Triangle, 20), Shifted(Triangle, 5000),
   <<[x |-> 0, y |-> 0, z |-> 0], [x |-> 10, y |-> 0, z |-> 0], [x |-> 300, y |-> 0, z |-> 0]>>,
   Cluster}

CloudMesh(k) ==
  [photoId |-> k, geometry |-> k, textureUrl |-> k, depthMap |-> k, width |-> 4, height |-> 4]
MergeInputs ==
  {[kind |-> "mergePointClouds", meshes |-> [k \in 1..Len(clouds) |-> CloudMesh(k)],
    geometries |-> clouds] :
     clouds \in UNION {[1..n -> Clouds] : n \in 0..MaxClouds}}
\* two points at the origin and one 1.049 away, and two targets 0.149 and 0.949
\* from the origin
Spread == <<[x |-> 0, y |-> 0, z |-> 0], [x |-> 0, y |-> 0, z |-> 0],
            [x |-> 1049, y |-> 0, z |-> 0]>>
Anchors == <<[x |-> 149, y |-> 0, z |-> 0], [x |-> 949, y |-> 0, z |-> 0]>>

\* for icpAlign also the empty cloud, one point, and two and four points that
\* coincide in pairs
SmallClouds ==
  {<<>>, <<[x |-> 40, y |-> 0, z |-> 0]>>,
   <<[x |-> 40, y |-> 0, z |-> 0], [x |-> 40, y |-> 0, z |-> 0]>>,
   <<[x |-> 40, y |-> 0, z |-> 0], [x |-> 40, y |-> 0, z |-> 0],
     [x |-> 0, y |-> 90, z |-> 0], [x |-> 0, y |-> 90, z |-> 0]>>,
   Spread, Anchors}
IcpInputs ==
  {[kind |-> "icpAlign", sourcePoints |-> source, targetPoints |-> target] :
     source \in Clouds \cup SmallClouds, target \in Clouds \cup SmallClouds}

\* the total point counts around the two thresholds of the voxel size
VoxelCounts == {2, 99999, 100000, 100001, 499999, 500000, 500001}
VoxelInputs == {[kind |-> "voxelSize", totalPoints |-> n] : n \in VoxelCounts}

\* the pairs of depth fields handed to computeFeatureOffset
OffsetInputs ==
  {[kind |-> "computeFeatureOffset", a |-> a, b |-> b] : a \in AlignFields, b \in AlignFields}

InitFuse ==
  /\ InitApp /\ InitEstimator /\ InitEquivIdle /\ InitBridge
  /\ fnArgs \in MergeInputs \cup IcpInputs \cup VoxelInputs \cup OffsetInputs
  /\ fnResult = NoOutput

IcpAlign ==
  /\ fnArgs.kind = "icpAlign"
  /\ fnResult = NoOutput
  /\ fnResult' = icpAlign(fnArgs.sourcePoints, fnArgs.targetPoints)
  /\ UNCHANGED <<appVars, hookVars, estimatorVars, equivVars, bridgeVars, fnArgs>>

MergePointClouds ==
  /\ fnArgs.kind = "mergePointClouds"
  /\ fnResult = NoOutput
  /\ fnResult' = mergePointCloudsGeometry(fnArgs.meshes, fnArgs.geometries)
  /\ UNCHANGED <<appVars, hookVars, estimatorVars, equivVars, bridgeVars, fnArgs>>

\* the choice of voxelSize in mergePointClouds, for a list of meshes with
\* totalPoints vertices together
ChooseVoxelSize ==
  /\ fnArgs.kind = "voxelSize"
  /\ fnResult = NoOutput
  /\ fnResult' = [kind |-> "voxelSize", voxelSize |-> VoxelSizeOf(fnArgs.totalPoints)]
  /\ UNCHANGED <<appVars, hookVars, estimatorVars, equivVars, bridgeVars, fnArgs>>

ComputeFeatureOffset ==
  /\ fnArgs.kind = "computeFeatureOffset"
  /\ fnResult = NoOutput
  /\ fnResult' =
       [kind |-> "offset",
        offset |-> computeFeatureOffset(fnArgs.a.depthMap, fnArgs.a.width, fnArgs.a.height,
                                        fnArgs.b.depthMap, fnArgs.b.width, fnArgs.b.height)]
  /\ UNCHANGED <<appVars, hookVars, estimatorVars, equivVars, bridgeVars, fnArgs>>

NextFuse ==
  \/ IcpAlign
  \/ MergePointClouds
  \/ ChooseVoxelSize
  \/ ComputeFeatureOffset

SpecFuse == InitFuse /\ [][NextFuse]_vars

\* C17: for every point cloud P, of fewer than 3 points and with coincident
\* points too, icpAlign(P, P) returns the zero translation and begins no second
\* iteration
C17_SelfAlignIsIdentity ==
  (fnArgs.kind = "icpAlign" /\ fnResult # NoOutput
     /\ fnArgs.sourcePoints = fnArgs.targetPoints)
    => /\ fnResult.translation = [x |-> 0, y |-> 0, z |-> 0]
       /\ fnResult.iterations <= 1

\* icpAlign has run on a cloud of four points that coincide in pairs and itself,
\* and ended in its first iteration
C17_Witness ==
  /\ fnArgs.kind = "icpAlign" /\ fnResult # NoOutput
  /\ fnArgs.sourcePoints = fnArgs.targetPoints
  /\ Len(fnArgs.sourcePoints) = 4
  /\ fnArgs.sourcePoints[1] = fnArgs.sourcePoints[2]
  /\ fnResult.iterations = 1

\* C12: mergePointClouds(meshes) leaves the positions of every input mesh's
\* geometry as they were, and the meshes it returns after the merged cloud are
\* the input meshes in order
C12_InputsReadOnly ==
  (fnArgs.kind = "mergePointClouds" /\ fnResult # NoOutput) =>
    /\ \A k \in 1..Len(fnArgs.meshes) :
         fnResult.geometries[fnArgs.meshes[k].geometry]
           = fnArgs.geometries[fnArgs.meshes[k].geometry]
    /\ Len(fnArgs.meshes) >= 2 => Tail(fnResult.ret) = fnArgs.meshes

\* two of the collected points have the same voxel key
SharedVoxel(allPositions) ==
  \E j, k \in 1..Len(allPositions) :
    /\ j # k
    /\ CellOf(allPositions[j], VoxelSizeOf(Len(allPositions)))
         = CellOf(allPositions[k], VoxelSizeOf(Len(allPositions)))

\* C18: for a list of at least two meshes the merged cloud has at most as many
\* points as the input geometries have vertices together, and fewer when two
\* input points have the same voxel key
C18_MergedCountBounded ==
  (fnArgs.kind = "mergePointClouds" /\ fnResult # NoOutput /\ Len(fnArgs.meshes) >= 2) =>
    LET allPositions == CollectPositions(fnArgs.meshes, 1, fnArgs.geometries)
        merged == fnResult.geometries[fnResult.ret[1].geometry]
    IN /\ Len(merged) <= Len(allPositions)
       /\ SharedVoxel(allPositions) => Len(merged) < Len(allPositions)

\* three meshes have been merged, one of them the cloud of ten points, and two
\* input points had the same voxel key
C18_Witness ==
  /\ fnArgs.kind = "mergePointClouds" /\ fnResult # NoOutput
  /\ Len(fnArgs.meshes) = 3
  /\ \E k \in 1..3 : fnArgs.geometries[k] = Cluster
  /\ SharedVoxel(CollectPositions(fnArgs.meshes, 1, fnArgs.geometries))
  /\ Len(fnResult.geometries[fnResult.ret[1].geometry])
       < Len(CollectPositions(fnArgs.meshes, 1, fnArgs.geometries))

\* C21: the points mergePointClouds puts into the voxel grid are the positions
\* the meshes have after the ICP loop, not the ones they had before it
C21_RegisteredPositionsMerged ==
  (fnArgs.kind = "mergePointClouds" /\ fnResult # NoOutput /\ Len(fnArgs.meshes) >= 2) =>
    LET registered == CollectPositions(fnArgs.meshes, 1, fnResult.geometries)
    IN fnResult.geometries[fnResult.ret[1].geometry]
         = statisticalOutlierRemoval(VoxelMerge(registered, VoxelSizeOf(Len(registered))))

\* C22: the voxel edge is 0.05 for fewer than 100000 points, 0.07 from 100000
\* to fewer than 500000, and 0.1 from 500000 on
C22_VoxelSizeByCount ==
  (fnArgs.kind = "voxelSize" /\ fnResult # NoOutput) =>
    fnResult.voxelSize =
      (IF fnArgs.totalPoints < 100000 THEN 50
       ELSE IF fnArgs.totalPoints < 500000 THEN 70 ELSE 100)

\* no cell of the first field has a cell of the second with a similarity above 0.8
NoFeatureMatch(a, b) ==
  \A i, j \in 1..64 :
    cellNCC(extractGridFeatures(a.depthMap, a.width, a.height)[i],
            extractGridFeatures(b.depthMap, b.width, b.height)[j]) <= 800

\* C24: icpAlign ends within maxIterations = 20 iterations and returns the
\* zero translation when an iteration finds fewer than 3 correspondences or a
\* cloud is empty; computeFeatureOffset returns (0, 0, 0) when no pair of cells
\* is more similar than 0.8
C24_DegenerateFallsBack ==
  /\ (fnArgs.kind = "icpAlign" /\ fnResult # NoOutput) =>
       /\ fnResult.iterations <= 20
       /\ (fnResult.degenerate \/ fnArgs.sourcePoints = <<>> \/ fnArgs.targetPoints = <<>>)
            => fnResult.translation = [x |-> 0, y |-> 0, z |-> 0]
  /\ (fnArgs.kind = "computeFeatureOffset" /\ fnResult # NoOutput
        /\ NoFeatureMatch(fnArgs.a, fnArgs.b))
       => fnResult.offset = [x |-> 0, y |-> 0, z |-> 0]

\* C23: the edge-margin culling of generateDepthMesh removes a triangle if and
\* only if one of its vertices samples the image inside the outer 3% border,
\* whatever the depth values and the perspective and stretch options
C23_CullingByImagePosition ==
  (fnArgs.kind = "generateDepthMesh" /\ fnResult # NoOutput) =>
    LET plane == PlaneGeometry(fnResult.segsX, fnResult.segsY)
        Inside(t) == ~InMargin(plane, t)
    IN TrianglesOf(fnResult.index) = SelectSeq(TrianglesOf(fnResult.beforeCull), Inside)

\* C30: a view whose depth field is the field of the view before it gets no
\* feature offset: alignMeshes moves it by the spacing term only, along x
C30_IdenticalViewsSpacingOnly ==
  (fnArgs.kind = "alignMeshes" /\ fnResult # NoOutput) =>
    \A k \in 2..Len(fnArgs.meshes) :
      LET prev == fnArgs.meshes[k - 1]
          curr == fnArgs.meshes[k]
          overlap == OverlapThousandths(computeDepthOverlap(prev.depthMap, curr.depthMap))
          spacing == [x |-> (50000 - 35 * overlap) * (k - 1), y |-> 0, z |-> 0]
      IN (prev.depthMap = curr.depthMap /\ prev.width = curr.width
            /\ prev.height = curr.height)
           => fnResult.geometries[fnResult.ret[k].geometry]
                = Translated(fnArgs.geometries[curr.geometry], spacing)

\* C26: whenever state.step is 'processing' a startProcessing batch is running
\* (or has completed and its 800 ms timer is about to show the viewer); a
\* RESTORE_STATE on mount never leaves step 'processing' without a batch
C26_ProcessingHasBatch ==
  state.step = "processing" => (batch.pc # "idle" \/ viewerTimer)

\* the calls whose callWorker promise is neither resolved nor rejected
Unsettled == {c \in DirectCallers : calls[c].pc = "callWorker"}

\* C28: a callWorker promise that is not settled has its entry in pendingCalls
\* and a referenced, running Worker to answer it: no entry is removed without
\* its promise being settled, and every termination or reset of the bridge
\* rejects the calls still pending
C28_PendingCallsSettled ==
  \A c \in Unsettled :
    /\ [id |-> calls[c].id, c |-> c] \in pendingCalls
    /\ worker # 0
    /\ workers[worker].alive

\* the Workers that were created and not terminated
Alive == {w \in 1..Len(workers) : workers[w].alive}

\* C29: every Worker that was created is the one `worker` refers to or has
\* been terminated, and workerReady is set only if the referenced Worker has
\* posted its '__init__' message
C29_OneWorkerAlive ==
  /\ Alive \subseteq {worker}
  /\ workerReady => (worker # 0 /\ workers[worker].started)

\* =========================================================================
\* hooks/useAppState : startProcessing called while a batch is running
\* (specification SpecHook).  The hook tests only state.photos.length; the
\* second call is made when the model of its tier is loaded, so that its
\* loadModel returns at once.
\* =========================================================================
RestartProcessing(modelSize) ==
  /\ batch.pc = "estimateDepth"
  /\ secondBatch = NoSecondBatch
  /\ Len(state.photos) >= 1
  /\ LoadModelEnter(depthPipeline, currentModelSize, modelSize).pc = "returned"
  /\ LET n == Len(state.photos)
         qs == [state.qualitySettings EXCEPT !.modelSize = modelSize]
         loading == D(SetProgress(Progress(0, n, 0, "loading-model")))
         t0 == <<D(SetQuality("modelSize", modelSize)), D(SetStep("processing")), loading>>
         b0 == [pc |-> "loadModel", photos |-> state.photos, qs |-> qs, i |-> 0,
                meshes |-> <<>>]
         r == LoopHead(b0, FALSE, NoThrow)
     IN /\ state' = Reduce(state, t0 \o r.trace)
        /\ secondBatch' = [batch |-> r.batch, timer |-> r.timer, outcome |-> r.outcome]
  /\ cancelRef' = FALSE
  /\ UNCHANGED <<batch, viewerTimer, pendingAdds, nextPhotoId, meshesBefore, trace, outcome,
                 cancelMark, estimatorVars, equivVars, bridgeVars, fnVars>>

\* estimateDepth of the second call's photo i resolves
SecondEstimateDepthResolved ==
  /\ secondBatch.batch.pc = "estimateDepth"
  /\ LET r == LoopBody(secondBatch.batch, cancelRef, NoThrow, NoThrow)
     IN /\ state' = Reduce(state, r.trace)
        /\ secondBatch' = [batch |-> r.batch, timer |-> r.timer, outcome |-> r.outcome]
  /\ UNCHANGED <<cancelRef, batch, viewerTimer, pendingAdds, nextPhotoId, meshesBefore,
                 trace, outcome, cancelMark, estimatorVars, equivVars, bridgeVars, fnVars>>

\* the setTimeout(..., 800) callback of the second call
SecondViewerTimeout ==
  /\ secondBatch.timer
  /\ state' = Reduce(state, <<D(SetStep("viewer")), D(SetProgress(NoProgress))>>)
  /\ secondBatch' = [secondBatch EXCEPT !.timer = FALSE]
  /\ UNCHANGED <<cancelRef, batch, viewerTimer, pendingAdds, nextPhotoId, meshesBefore,
                 trace, outcome, cancelMark, estimatorVars, equivVars, bridgeVars, fnVars>>

NextHook ==
  \/ \E k \in 1..MaxPhotos : AddPhotosCall(k)
  \/ \E ps \in pendingAdds : AddPhotosResolved(ps)
  \/ \E m \in TierInputs : StartProcessing(m)
  \/ BatchDetectResolved
  \/ BatchPipelineResolved
  \/ EstimateDepthResolved(NoThrow, NoThrow)
  \/ ViewerTimeout
  \/ CancelProcessing
  \/ \E m \in TierInputs : RestartProcessing(m)
  \/ SecondEstimateDepthResolved
  \/ SecondViewerTimeout

SpecHook == Init /\ [][NextHook]_vars

\* C25: the batch that is running when cancelProcessing is called starts no
\* estimateDepth after the request, whatever is called in between, and two
\* overlapping batches never both complete
C25_CancelNeverLost ==
  /\ cancelMark >= 0 =>
       \A k \in (cancelMark + 1)..Len(trace) : ~IsCall(trace[k], "estimateDepth")
  /\ ~(outcome = "completed" /\ secondBatch.outcome = "completed")

\* =========================================================================
\* hooks/useAppState and PhotoUploader : addPhotos calls that overlap
\* (specification SpecPhotos)
\* =========================================================================
MaxFiles == 80        \* photo ids ever created in one behaviour
MaxPending == 2       \* addPhotos calls awaiting Promise.all at one time
MinRemoveLen == 50    \* photos are removed one by one from lists longer than this

\* the numbers of files of one drop
FileCounts == {30}

\* handleDrop: onAddPhotos(valid) with k files, up to the await of Promise.all;
\* the drop zone takes a drop while earlier files are still being read
AddPhotosDropped(k) ==
  /\ state.step = "upload"
  /\ Cardinality(pendingAdds) < MaxPending
  /\ LET remaining == PhotoLimit - Len(state.photos)
         \* fileArray.slice(0, remaining)
         count == IF remaining >= 0 THEN Min(k, remaining) ELSE Max(k + remaining, 0)
         toAdd == [j \in 1..count |-> ToString(nextPhotoId + j)]
     IN /\ nextPhotoId + count <= MaxFiles
        /\ pendingAdds' = pendingAdds \cup {toAdd}
        /\ nextPhotoId' = nextPhotoId + count
  /\ ForgetHistory
  /\ UNCHANGED <<state, cancelRef, viewerTimer, estimatorVars>>
  /\ UNCHANGED engineVars

\* PhotoUploader's onRemovePhoto(id): dispatch REMOVE_PHOTO
RemovePhoto(id) ==
  /\ state.step = "upload"
  /\ state' = reducer(state, RemovePhotoAction(id))
  /\ ForgetHistory
  /\ UNCHANGED <<cancelRef, viewerTimer, pendingAdds, nextPhotoId, estimatorVars>>
  /\ UNCHANGED engineVars

\* dispatch CLEAR_PHOTOS
ClearPhotos ==
  /\ state.photos # <<>>
  /\ state' = reducer(state, [type |-> "CLEAR_PHOTOS"])
  /\ ForgetHistory
  /\ UNCHANGED <<cancelRef, viewerTimer, pendingAdds, nextPhotoId, estimatorVars>>
  /\ UNCHANGED engineVars

NextPhotos ==
  \/ \E k \in FileCounts : AddPhotosDropped(k)
  \/ \E ps \in pendingAdds : AddPhotosResolved(ps)
  \/ \E ps \in pendingAdds : AddPhotosRejected(ps)
  \/ (Len(state.photos) > MinRemoveLen /\ RemovePhoto(Head(state.photos)))
  \/ ClearPhotos

SpecPhotos == Init /\ [][NextPhotos]_vars

\* C27: state.photos never holds more than 50 photos
C27_PhotoLimit == Len(state.photos) <= PhotoLimit

\* the vertices of the geometry that appear in no triangle of its index buffer
Isolated(geometry) ==
  {i \in 0..(Len(geometry.position) - 1) :
     \A k \in 1..Len(geometry.index) : geometry.index[k] # i}

\* every vertex has the same z
Flat(geometry) ==
  \A j, k \in 1..Len(geometry.position) : geometry.position[j].z = geometry.position[k].z

\* C19: smoothMesh on a mesh whose vertices all have the same z leaves every
\* vertex's z as it was, for every iteration count and every index buffer.
C19_FlatPlaneFixed ==
  (fnArgs.kind = "smoothMesh" /\ Flat(fnArgs.geometry)) =>
    \A k \in 1..Len(fnArgs.geometry.position) :
      fnResult.position[k].z = fnArgs.geometry.position[k].z

\* a flat mesh away from z = 0 with triangles left, smoothed three times
C19_Witness ==
  /\ fnArgs.kind = "smoothMesh"
  /\ Flat(fnArgs.geometry)
  /\ fnArgs.geometry.position[1].z > 0
  /\ Len(fnArgs.geometry.index) > 0
  /\ fnArgs.iterations = 3
  /\ fnResult.position = fnArgs.geometry.position

\* C20: smoothMesh leaves the x and y of every vertex, the vertex count and
\* the index buffer as they were, and the z of every vertex that is in no
\* triangle of the index buffer.
C20_OnlyZOfConnected ==
  fnArgs.kind = "smoothMesh" =>
    /\ Len(fnResult.position) = Len(fnArgs.geometry.position)
    /\ fnResult.index = fnArgs.geometry.index
    /\ \A k \in 1..Len(fnArgs.geometry.position) :
         /\ fnResult.position[k].x = fnArgs.geometry.position[k].x
         /\ fnResult.position[k].y = fnArgs.geometry.position[k].y
         /\ (k - 1) \in Isolated(fnArgs.geometry)
              => fnResult.position[k].z = fnArgs.geometry.position[k].z

\* smoothing moved the z of a connected vertex of a mesh that has isolated
\* vertices away from z = 0
C20_Witness ==
  /\ fnArgs.kind = "smoothMesh"
  /\ fnArgs.iterations > 0
  /\ \E i \in Isolated(fnArgs.geometry) : fnArgs.geometry.position[i + 1].z > 0
  /\ \E k \in 1..Len(fnArgs.geometry.position) :
       fnResult.position[k].z # fnArgs.geometry.position[k].z

\* both fields are non-empty and uniform, and their values are in different
\* histogram bins
UniformInDistinctBins(depthA, depthB) ==
  /\ Len(depthA) > 0 /\ Len(depthB) > 0
  /\ \A i \in 1..Len(depthA) : depthA[i] = depthA[1]
  /\ \A i \in 1..Len(depthB) : depthB[i] = depthB[1]
  /\ BinOf(depthA[1]) # BinOf(depthB[1])

\* C15 as claimed: for two uniform depth fields whose values are in distinct
\* histogram bins computeDepthOverlap returns a value greater than 0 and less
\* than 1.
C15_LowButNonZero ==
  (fnArgs.kind = "computeDepthOverlap" /\ fnResult.ab # NoOutput
     /\ UniformInDistinctBins(fnArgs.depthA, fnArgs.depthB))
    => (fnResult.ab.hi > 0 /\ fnResult.ab.hi < One)

\* C15 as amended: for two uniform depth fields whose values are in distinct
\* histogram bins computeDepthOverlap returns exactly 0.
C15_DistinctBinsGiveZero ==
  (fnArgs.kind = "computeDepthOverlap" /\ fnResult.ab # NoOutput
     /\ UniformInDistinctBins(fnArgs.depthA, fnArgs.depthB))
    => (fnResult.ab.lo = 0 /\ fnResult.ab.hi = 0)

\* the overlap of the 4 by 4 field of 0.5 and the 4 by 4 field of 0.9 has been
\* computed
C15_Witness ==
  /\ fnArgs.kind = "computeDepthOverlap"
  /\ fnArgs.depthA = Uniform(16, 500)
  /\ fnArgs.depthB = Uniform(16, 900)
  /\ fnResult.ab # NoOutput
  /\ fnResult.ab.hi = 0

\* C16: computeDepthOverlap is symmetric, it is between 0 and 1, and the
\* overlap of a non-empty field with itself is exactly 1.
C16_SymmetricAndBounded ==
  fnArgs.kind = "computeDepthOverlap" =>
    /\ (fnResult.ab # NoOutput /\ fnResult.ba # NoOutput) => fnResult.ab = fnResult.ba
    /\ fnResult.ab # NoOutput => (0 <= fnResult.ab.lo /\ fnResult.ab.lo <= One)
    /\ (fnResult.ab # NoOutput /\ fnArgs.depthA = fnArgs.depthB /\ Len(fnArgs.depthA) > 0)
         => (fnResult.ab.lo = One /\ fnResult.ab.hi = One)

\* C13: alignMeshes returns a list of the same length and order whose element 0
\* is the first input mesh, unmoved; every other element i has a cloned
\* geometry whose vertices are the input's, all translated by
\* (5 * (1 - 0.7 * overlap) * i + featureOffset.x, featureOffset.y,
\* featureOffset.z), and the photoId, depthMap and textureUrl of the input; no
\* input geometry is modified.
C13_AlignClonesAndTranslates ==
  (fnArgs.kind = "alignMeshes" /\ fnResult # NoOutput) =>
    LET meshes == fnArgs.meshes
        before == fnArgs.geometries
        after == fnResult.geometries
        ret == fnResult.ret
    IN /\ Len(ret) = Len(meshes)
       /\ Len(meshes) >= 1 => ret[1] = meshes[1]
       /\ \A g \in 1..Len(before) : after[g] = before[g]
       /\ \A k \in 2..Len(meshes) :
            LET overlap == OverlapThousandths(
                             computeDepthOverlap(meshes[k - 1].depthMap, meshes[k].depthMap))
                featureOffset ==
                  computeFeatureOffset(
                    meshes[k - 1].depthMap, meshes[k - 1].width, meshes[k - 1].height,
                    meshes[k].depthMap, meshes[k].width, meshes[k].height)
                tx == (5 * (10000 - 7 * overlap) * (k - 1)) + featureOffset.x
            IN /\ ret[k].photoId = meshes[k].photoId
               /\ ret[k].depthMap = meshes[k].depthMap
               /\ ret[k].textureUrl = meshes[k].textureUrl
               /\ ret[k].geometry \notin {meshes[j].geometry : j \in 1..Len(meshes)}
               /\ Len(after[ret[k].geometry]) = Len(before[meshes[k].geometry])
               /\ \A v \in 1..Len(before[meshes[k].geometry]) :
                    /\ after[ret[k].geometry][v].x = before[meshes[k].geometry][v].x + tx
                    /\ after[ret[k].geometry][v].y
                         = before[meshes[k].geometry][v].y + featureOffset.y
                    /\ after[ret[k].geometry][v].z
                         = before[meshes[k].geometry][v].z + featureOffset.z

\* three meshes aligned, the second moved by a feature offset as well as by
\* the spacing
C13_Witness ==
  /\ fnArgs.kind = "alignMeshes"
  /\ fnResult # NoOutput
  /\ Len(fnArgs.meshes) = 3
  /\ Len(fnResult.geometries) = 5
  /\ fnResult.geometries[5][1].y # 0
  /\ fnResult.geometries[5][1].x > 0

\* C14: when the model's result has no depth tensor, or a depth tensor with no
\* samples, estimateDepth throws and returns no {depthMap, width, height}.
C14_NoEmptyField ==
  (fnArgs.kind = "estimateDepth" /\ fnResult # NoOutput
     /\ (fnResult.result.outputs = 0 \/ fnResult.result.depth.length <= 0))
    => fnResult.kind = "rejected"

====
